---- MODULE Spec2Model ----
(***************************************************************************)
(* ckb_textify: the pipeline orchestrator, its whitespace canonicalization *)
(* and the token passes of SpacingNormalizer, TechnicalNormalizer,         *)
(* MathNormalizer and DateTimeNormalizer.                                  *)
(*                                                                         *)
(* A text (a Python str) is the sequence of the code points of its         *)
(* characters: "5+3" is <<53, 43, 51>> and the glyph one-half, U+00BD, is  *)
(* <<189>>.  A("..") writes a text of ASCII characters and K("..") writes  *)
(* a Kurdish word, one Latin character for each letter of the Arabic       *)
(* script; any other character of a K text stands for itself:              *)
(*   U+0626 '   U+0627 a   U+0628 b   U+067E p   U+062A t   U+062C j       *)
(*   U+0686 c   U+062D !   U+062E x   U+062F d   U+0631 r   U+0695 q       *)
(*   U+0632 z   U+0698 ~   U+0633 s   U+0634 $   U+0639 &   U+0641 f       *)
(*   U+06A4 v   U+06A9 k   U+06AF g   U+0644 l   U+06B5 _   U+0645 m       *)
(*   U+0646 n   U+0648 w   U+06C6 o   U+0647 ?   U+06BE h   U+06D5 e       *)
(*   U+06CC y   U+06CE u   U+064A i   U+0640 ;   U+200C |                  *)
(* The operators that translate the source write their texts out as code   *)
(* points, with the text beside them in a comment; the input vocabularies  *)
(* and the properties write them with A and K.                             *)
(* The character classes and the case mappings are those of Unicode 14.0,  *)
(* the version of the character database of CPython 3.11.                  *)
(***************************************************************************)
EXTENDS Integers, Sequences, FiniteSets, TLC

VARIABLES
    config,       \* Pipeline.config: the set of enabled boolean toggles
    prio,         \* m.priority of the modules whose source is not in src/
    modules,      \* Pipeline.modules: the sorted module list
    calls,        \* number of normalize() calls started so far
    cur,          \* the text argument of the running normalize() call
    ran,          \* names of the modules process() has been called on, in order
    pc,           \* position of the running operation
    text,         \* final_text of Pipeline.normalize (pipeline.py:100-115)
    tokens,       \* the token list a module pass works on (mutated in place)
    input,        \* the token list as it was handed to process()
    i,            \* loop index of the running pass (0-based, as in the source)
    new_tokens,   \* TechnicalNormalizer.process: new_tokens
    tech_indices, \* TechnicalNormalizer.process: tech_indices
    raised        \* TRUE once the running pass has raised an exception

vars == << config, prio, modules, calls, cur, ran, pc, text, tokens, input, i,
           new_tokens, tech_indices, raised >>

(***************************************************************************)
(* Bounds of the model.                                                    *)
(***************************************************************************)
MaxCalls == 2
MaxLen == 5
MaxSpacingTok == 3

(***************************************************************************)
(* Generic helpers.                                                        *)
(***************************************************************************)
Range(s) == { s[k] : k \in 1..Len(s) }

SeqsUpTo(S, n) == UNION { [1..k -> S] : k \in 0..n }

Ch(s, k) == s[k]

RECURSIVE MapIdx(_, _, _)
\* positions k of ms[k] = x, the first one
MapIdx(ms, x, k) ==
    IF k > Len(ms) THEN 0 ELSE IF ms[k] = x THEN k ELSE MapIdx(ms, x, k + 1)

IndexOf(ms, x) == MapIdx(ms, x, 1)

(***************************************************************************)
(* Texts.                                                                  *)
(***************************************************************************)
\* the characters U+0020 .. U+005F and U+0061 .. U+007E, in code point order
AsciiUpperHalf == " !\"#$%&'()*+,-./0123456789:;<=>?@ABCDEFGHIJKLMNOPQRSTUVWXYZ[\\]^_"

AsciiLowerHalf == "abcdefghijklmnopqrstuvwxyz{|}~"

OrdTable ==
    { << SubSeq(AsciiUpperHalf, k, k), 31 + k >> : k \in 1..Len(AsciiUpperHalf) }
    \cup { << SubSeq(AsciiLowerHalf, k, k), 96 + k >> : k \in 1..Len(AsciiLowerHalf) }
    \cup { << "\t", 9 >>, << "\n", 10 >>, << "\f", 12 >>, << "\r", 13 >> }

\* ord(c) of an ASCII character
Ord == [ c \in { p[1] : p \in OrdTable } |-> (CHOOSE p \in OrdTable : p[1] = c)[2] ]

\* the text of an ASCII literal
A(s) == [ k \in 1..Len(s) |-> Ord[SubSeq(s, k, k)] ]

KurdishTable ==
    { <<"'", 1574>>, <<"a", 1575>>, <<"b", 1576>>, <<"p", 1662>>, <<"t", 1578>>,
      <<"j", 1580>>, <<"c", 1670>>, <<"!", 1581>>, <<"x", 1582>>, <<"d", 1583>>,
      <<"r", 1585>>, <<"q", 1685>>, <<"z", 1586>>, <<"~", 1688>>, <<"s", 1587>>,
      <<"$", 1588>>, <<"&", 1593>>, <<"f", 1601>>, <<"v", 1700>>, <<"k", 1705>>,
      <<"g", 1711>>, <<"l", 1604>>, <<"_", 1717>>, <<"m", 1605>>, <<"n", 1606>>,
      <<"w", 1608>>, <<"o", 1734>>, <<"?", 1607>>, <<"h", 1726>>, <<"e", 1749>>,
      <<"y", 1740>>, <<"u", 1742>>, <<"i", 1610>>, <<";", 1600>>, <<"|", 8204>> }

KurdishOrd ==
    [ c \in { p[1] : p \in KurdishTable } |-> (CHOOSE p \in KurdishTable : p[1] = c)[2] ]

\* the text of a Kurdish literal
K(s) ==
    [ k \in 1..Len(s) |->
        LET c == SubSeq(s, k, k)
        IN  IF c \in DOMAIN KurdishOrd THEN KurdishOrd[c] ELSE Ord[c] ]

\* the text of a decimal literal: str(n) for 0 <= n
Str(n) == A(ToString(n))


(***************************************************************************)
(* The character database of Python: str.isalpha, str.isdecimal,           *)
(* str.isdigit, str.isnumeric, str.isspace, str.lower and str.upper, and   *)
(* with them the classes \d, \w and \s of the re module.  The tables are   *)
(* sorted by their first field.                                            *)
(***************************************************************************)
\* The decimal digits (category Nd), the characters c with c.isdecimal(): a
\* row is the digits zero to nine of one digit system.
DecimalRanges ==
    << <<48, 57>>, <<1632, 1641>>, <<1776, 1785>>, <<1984, 1993>>, <<2406, 2415>>,
      <<2534, 2543>>, <<2662, 2671>>, <<2790, 2799>>, <<2918, 2927>>, <<3046, 3055>>,
      <<3174, 3183>>, <<3302, 3311>>, <<3430, 3439>>, <<3558, 3567>>, <<3664, 3673>>,
      <<3792, 3801>>, <<3872, 3881>>, <<4160, 4169>>, <<4240, 4249>>, <<6112, 6121>>,
      <<6160, 6169>>, <<6470, 6479>>, <<6608, 6617>>, <<6784, 6793>>, <<6800, 6809>>,
      <<6992, 7001>>, <<7088, 7097>>, <<7232, 7241>>, <<7248, 7257>>, <<42528, 42537>>,
      <<43216, 43225>>, <<43264, 43273>>, <<43472, 43481>>, <<43504, 43513>>, <<43600, 43609>>,
      <<44016, 44025>>, <<65296, 65305>>, <<66720, 66729>>, <<68912, 68921>>, <<69734, 69743>>,
      <<69872, 69881>>, <<69942, 69951>>, <<70096, 70105>>, <<70384, 70393>>, <<70736, 70745>>,
      <<70864, 70873>>, <<71248, 71257>>, <<71360, 71369>>, <<71472, 71481>>, <<71904, 71913>>,
      <<72016, 72025>>, <<72784, 72793>>, <<73040, 73049>>, <<73120, 73129>>, <<92768, 92777>>,
      <<92864, 92873>>, <<93008, 93017>>, <<120782, 120791>>, <<120792, 120801>>, <<120802, 120811>>,
      <<120812, 120821>>, <<120822, 120831>>, <<123200, 123209>>, <<123632, 123641>>, <<125264, 125273>>,
      <<130032, 130041>> >>

\* The letters: the characters c with c.isalpha().
AlphaRanges ==
    << <<65, 90>>, <<97, 122>>, <<170, 170>>, <<181, 181>>, <<186, 186>>,
      <<192, 214>>, <<216, 246>>, <<248, 705>>, <<710, 721>>, <<736, 740>>,
      <<748, 748>>, <<750, 750>>, <<880, 884>>, <<886, 887>>, <<890, 893>>,
      <<895, 895>>, <<902, 902>>, <<904, 906>>, <<908, 908>>, <<910, 929>>,
      <<931, 1013>>, <<1015, 1153>>, <<1162, 1327>>, <<1329, 1366>>, <<1369, 1369>>,
      <<1376, 1416>>, <<1488, 1514>>, <<1519, 1522>>, <<1568, 1610>>, <<1646, 1647>>,
      <<1649, 1747>>, <<1749, 1749>>, <<1765, 1766>>, <<1774, 1775>>, <<1786, 1788>>,
      <<1791, 1791>>, <<1808, 1808>>, <<1810, 1839>>, <<1869, 1957>>, <<1969, 1969>>,
      <<1994, 2026>>, <<2036, 2037>>, <<2042, 2042>>, <<2048, 2069>>, <<2074, 2074>>,
      <<2084, 2084>>, <<2088, 2088>>, <<2112, 2136>>, <<2144, 2154>>, <<2160, 2183>>,
      <<2185, 2190>>, <<2208, 2249>>, <<2308, 2361>>, <<2365, 2365>>, <<2384, 2384>>,
      <<2392, 2401>>, <<2417, 2432>>, <<2437, 2444>>, <<2447, 2448>>, <<2451, 2472>>,
      <<2474, 2480>>, <<2482, 2482>>, <<2486, 2489>>, <<2493, 2493>>, <<2510, 2510>>,
      <<2524, 2525>>, <<2527, 2529>>, <<2544, 2545>>, <<2556, 2556>>, <<2565, 2570>>,
      <<2575, 2576>>, <<2579, 2600>>, <<2602, 2608>>, <<2610, 2611>>, <<2613, 2614>>,
      <<2616, 2617>>, <<2649, 2652>>, <<2654, 2654>>, <<2674, 2676>>, <<2693, 2701>>,
      <<2703, 2705>>, <<2707, 2728>>, <<2730, 2736>>, <<2738, 2739>>, <<2741, 2745>>,
      <<2749, 2749>>, <<2768, 2768>>, <<2784, 2785>>, <<2809, 2809>>, <<2821, 2828>>,
      <<2831, 2832>>, <<2835, 2856>>, <<2858, 2864>>, <<2866, 2867>>, <<2869, 2873>>,
      <<2877, 2877>>, <<2908, 2909>>, <<2911, 2913>>, <<2929, 2929>>, <<2947, 2947>>,
      <<2949, 2954>>, <<2958, 2960>>, <<2962, 2965>>, <<2969, 2970>>, <<2972, 2972>>,
      <<2974, 2975>>, <<2979, 2980>>, <<2984, 2986>>, <<2990, 3001>>, <<3024, 3024>>,
      <<3077, 3084>>, <<3086, 3088>>, <<3090, 3112>>, <<3114, 3129>>, <<3133, 3133>>,
      <<3160, 3162>>, <<3165, 3165>>, <<3168, 3169>>, <<3200, 3200>>, <<3205, 3212>>,
      <<3214, 3216>>, <<3218, 3240>>, <<3242, 3251>>, <<3253, 3257>>, <<3261, 3261>>,
      <<3293, 3294>>, <<3296, 3297>>, <<3313, 3314>>, <<3332, 3340>>, <<3342, 3344>>,
      <<3346, 3386>>, <<3389, 3389>>, <<3406, 3406>>, <<3412, 3414>>, <<3423, 3425>>,
      <<3450, 3455>>, <<3461, 3478>>, <<3482, 3505>>, <<3507, 3515>>, <<3517, 3517>>,
      <<3520, 3526>>, <<3585, 3632>>, <<3634, 3635>>, <<3648, 3654>>, <<3713, 3714>>,
      <<3716, 3716>>, <<3718, 3722>>, <<3724, 3747>>, <<3749, 3749>>, <<3751, 3760>>,
      <<3762, 3763>>, <<3773, 3773>>, <<3776, 3780>>, <<3782, 3782>>, <<3804, 3807>>,
      <<3840, 3840>>, <<3904, 3911>>, <<3913, 3948>>, <<3976, 3980>>, <<4096, 4138>>,
      <<4159, 4159>>, <<4176, 4181>>, <<4186, 4189>>, <<4193, 4193>>, <<4197, 4198>>,
      <<4206, 4208>>, <<4213, 4225>>, <<4238, 4238>>, <<4256, 4293>>, <<4295, 4295>>,
      <<4301, 4301>>, <<4304, 4346>>, <<4348, 4680>>, <<4682, 4685>>, <<4688, 4694>>,
      <<4696, 4696>>, <<4698, 4701>>, <<4704, 4744>>, <<4746, 4749>>, <<4752, 4784>>,
      <<4786, 4789>>, <<4792, 4798>>, <<4800, 4800>>, <<4802, 4805>>, <<4808, 4822>>,
      <<4824, 4880>>, <<4882, 4885>>, <<4888, 4954>>, <<4992, 5007>>, <<5024, 5109>>,
      <<5112, 5117>>, <<5121, 5740>>, <<5743, 5759>>, <<5761, 5786>>, <<5792, 5866>>,
      <<5873, 5880>>, <<5888, 5905>>, <<5919, 5937>>, <<5952, 5969>>, <<5984, 5996>>,
      <<5998, 6000>>, <<6016, 6067>>, <<6103, 6103>>, <<6108, 6108>>, <<6176, 6264>>,
      <<6272, 6276>>, <<6279, 6312>>, <<6314, 6314>>, <<6320, 6389>>, <<6400, 6430>>,
      <<6480, 6509>>, <<6512, 6516>>, <<6528, 6571>>, <<6576, 6601>>, <<6656, 6678>>,
      <<6688, 6740>>, <<6823, 6823>>, <<6917, 6963>>, <<6981, 6988>>, <<7043, 7072>>,
      <<7086, 7087>>, <<7098, 7141>>, <<7168, 7203>>, <<7245, 7247>>, <<7258, 7293>>,
      <<7296, 7304>>, <<7312, 7354>>, <<7357, 7359>>, <<7401, 7404>>, <<7406, 7411>>,
      <<7413, 7414>>, <<7418, 7418>>, <<7424, 7615>>, <<7680, 7957>>, <<7960, 7965>>,
      <<7968, 8005>>, <<8008, 8013>>, <<8016, 8023>>, <<8025, 8025>>, <<8027, 8027>>,
      <<8029, 8029>>, <<8031, 8061>>, <<8064, 8116>>, <<8118, 8124>>, <<8126, 8126>>,
      <<8130, 8132>>, <<8134, 8140>>, <<8144, 8147>>, <<8150, 8155>>, <<8160, 8172>>,
      <<8178, 8180>>, <<8182, 8188>>, <<8305, 8305>>, <<8319, 8319>>, <<8336, 8348>>,
      <<8450, 8450>>, <<8455, 8455>>, <<8458, 8467>>, <<8469, 8469>>, <<8473, 8477>>,
      <<8484, 8484>>, <<8486, 8486>>, <<8488, 8488>>, <<8490, 8493>>, <<8495, 8505>>,
      <<8508, 8511>>, <<8517, 8521>>, <<8526, 8526>>, <<8579, 8580>>, <<11264, 11492>>,
      <<11499, 11502>>, <<11506, 11507>>, <<11520, 11557>>, <<11559, 11559>>, <<11565, 11565>>,
      <<11568, 11623>>, <<11631, 11631>>, <<11648, 11670>>, <<11680, 11686>>, <<11688, 11694>>,
      <<11696, 11702>>, <<11704, 11710>>, <<11712, 11718>>, <<11720, 11726>>, <<11728, 11734>>,
      <<11736, 11742>>, <<11823, 11823>>, <<12293, 12294>>, <<12337, 12341>>, <<12347, 12348>>,
      <<12353, 12438>>, <<12445, 12447>>, <<12449, 12538>>, <<12540, 12543>>, <<12549, 12591>>,
      <<12593, 12686>>, <<12704, 12735>>, <<12784, 12799>>, <<13312, 19903>>, <<19968, 42124>>,
      <<42192, 42237>>, <<42240, 42508>>, <<42512, 42527>>, <<42538, 42539>>, <<42560, 42606>>,
      <<42623, 42653>>, <<42656, 42725>>, <<42775, 42783>>, <<42786, 42888>>, <<42891, 42954>>,
      <<42960, 42961>>, <<42963, 42963>>, <<42965, 42969>>, <<42994, 43009>>, <<43011, 43013>>,
      <<43015, 43018>>, <<43020, 43042>>, <<43072, 43123>>, <<43138, 43187>>, <<43250, 43255>>,
      <<43259, 43259>>, <<43261, 43262>>, <<43274, 43301>>, <<43312, 43334>>, <<43360, 43388>>,
      <<43396, 43442>>, <<43471, 43471>>, <<43488, 43492>>, <<43494, 43503>>, <<43514, 43518>>,
      <<43520, 43560>>, <<43584, 43586>>, <<43588, 43595>>, <<43616, 43638>>, <<43642, 43642>>,
      <<43646, 43695>>, <<43697, 43697>>, <<43701, 43702>>, <<43705, 43709>>, <<43712, 43712>>,
      <<43714, 43714>>, <<43739, 43741>>, <<43744, 43754>>, <<43762, 43764>>, <<43777, 43782>>,
      <<43785, 43790>>, <<43793, 43798>>, <<43808, 43814>>, <<43816, 43822>>, <<43824, 43866>>,
      <<43868, 43881>>, <<43888, 44002>>, <<44032, 55203>>, <<55216, 55238>>, <<55243, 55291>>,
      <<63744, 64109>>, <<64112, 64217>>, <<64256, 64262>>, <<64275, 64279>>, <<64285, 64285>>,
      <<64287, 64296>>, <<64298, 64310>>, <<64312, 64316>>, <<64318, 64318>>, <<64320, 64321>>,
      <<64323, 64324>>, <<64326, 64433>>, <<64467, 64829>>, <<64848, 64911>>, <<64914, 64967>>,
      <<65008, 65019>>, <<65136, 65140>>, <<65142, 65276>>, <<65313, 65338>>, <<65345, 65370>>,
      <<65382, 65470>>, <<65474, 65479>>, <<65482, 65487>>, <<65490, 65495>>, <<65498, 65500>>,
      <<65536, 65547>>, <<65549, 65574>>, <<65576, 65594>>, <<65596, 65597>>, <<65599, 65613>>,
      <<65616, 65629>>, <<65664, 65786>>, <<66176, 66204>>, <<66208, 66256>>, <<66304, 66335>>,
      <<66349, 66368>>, <<66370, 66377>>, <<66384, 66421>>, <<66432, 66461>>, <<66464, 66499>>,
      <<66504, 66511>>, <<66560, 66717>>, <<66736, 66771>>, <<66776, 66811>>, <<66816, 66855>>,
      <<66864, 66915>>, <<66928, 66938>>, <<66940, 66954>>, <<66956, 66962>>, <<66964, 66965>>,
      <<66967, 66977>>, <<66979, 66993>>, <<66995, 67001>>, <<67003, 67004>>, <<67072, 67382>>,
      <<67392, 67413>>, <<67424, 67431>>, <<67456, 67461>>, <<67463, 67504>>, <<67506, 67514>>,
      <<67584, 67589>>, <<67592, 67592>>, <<67594, 67637>>, <<67639, 67640>>, <<67644, 67644>>,
      <<67647, 67669>>, <<67680, 67702>>, <<67712, 67742>>, <<67808, 67826>>, <<67828, 67829>>,
      <<67840, 67861>>, <<67872, 67897>>, <<67968, 68023>>, <<68030, 68031>>, <<68096, 68096>>,
      <<68112, 68115>>, <<68117, 68119>>, <<68121, 68149>>, <<68192, 68220>>, <<68224, 68252>>,
      <<68288, 68295>>, <<68297, 68324>>, <<68352, 68405>>, <<68416, 68437>>, <<68448, 68466>>,
      <<68480, 68497>>, <<68608, 68680>>, <<68736, 68786>>, <<68800, 68850>>, <<68864, 68899>>,
      <<69248, 69289>>, <<69296, 69297>>, <<69376, 69404>>, <<69415, 69415>>, <<69424, 69445>>,
      <<69488, 69505>>, <<69552, 69572>>, <<69600, 69622>>, <<69635, 69687>>, <<69745, 69746>>,
      <<69749, 69749>>, <<69763, 69807>>, <<69840, 69864>>, <<69891, 69926>>, <<69956, 69956>>,
      <<69959, 69959>>, <<69968, 70002>>, <<70006, 70006>>, <<70019, 70066>>, <<70081, 70084>>,
      <<70106, 70106>>, <<70108, 70108>>, <<70144, 70161>>, <<70163, 70187>>, <<70272, 70278>>,
      <<70280, 70280>>, <<70282, 70285>>, <<70287, 70301>>, <<70303, 70312>>, <<70320, 70366>>,
      <<70405, 70412>>, <<70415, 70416>>, <<70419, 70440>>, <<70442, 70448>>, <<70450, 70451>>,
      <<70453, 70457>>, <<70461, 70461>>, <<70480, 70480>>, <<70493, 70497>>, <<70656, 70708>>,
      <<70727, 70730>>, <<70751, 70753>>, <<70784, 70831>>, <<70852, 70853>>, <<70855, 70855>>,
      <<71040, 71086>>, <<71128, 71131>>, <<71168, 71215>>, <<71236, 71236>>, <<71296, 71338>>,
      <<71352, 71352>>, <<71424, 71450>>, <<71488, 71494>>, <<71680, 71723>>, <<71840, 71903>>,
      <<71935, 71942>>, <<71945, 71945>>, <<71948, 71955>>, <<71957, 71958>>, <<71960, 71983>>,
      <<71999, 71999>>, <<72001, 72001>>, <<72096, 72103>>, <<72106, 72144>>, <<72161, 72161>>,
      <<72163, 72163>>, <<72192, 72192>>, <<72203, 72242>>, <<72250, 72250>>, <<72272, 72272>>,
      <<72284, 72329>>, <<72349, 72349>>, <<72368, 72440>>, <<72704, 72712>>, <<72714, 72750>>,
      <<72768, 72768>>, <<72818, 72847>>, <<72960, 72966>>, <<72968, 72969>>, <<72971, 73008>>,
      <<73030, 73030>>, <<73056, 73061>>, <<73063, 73064>>, <<73066, 73097>>, <<73112, 73112>>,
      <<73440, 73458>>, <<73648, 73648>>, <<73728, 74649>>, <<74880, 75075>>, <<77712, 77808>>,
      <<77824, 78894>>, <<82944, 83526>>, <<92160, 92728>>, <<92736, 92766>>, <<92784, 92862>>,
      <<92880, 92909>>, <<92928, 92975>>, <<92992, 92995>>, <<93027, 93047>>, <<93053, 93071>>,
      <<93760, 93823>>, <<93952, 94026>>, <<94032, 94032>>, <<94099, 94111>>, <<94176, 94177>>,
      <<94179, 94179>>, <<94208, 100343>>, <<100352, 101589>>, <<101632, 101640>>, <<110576, 110579>>,
      <<110581, 110587>>, <<110589, 110590>>, <<110592, 110882>>, <<110928, 110930>>, <<110948, 110951>>,
      <<110960, 111355>>, <<113664, 113770>>, <<113776, 113788>>, <<113792, 113800>>, <<113808, 113817>>,
      <<119808, 119892>>, <<119894, 119964>>, <<119966, 119967>>, <<119970, 119970>>, <<119973, 119974>>,
      <<119977, 119980>>, <<119982, 119993>>, <<119995, 119995>>, <<119997, 120003>>, <<120005, 120069>>,
      <<120071, 120074>>, <<120077, 120084>>, <<120086, 120092>>, <<120094, 120121>>, <<120123, 120126>>,
      <<120128, 120132>>, <<120134, 120134>>, <<120138, 120144>>, <<120146, 120485>>, <<120488, 120512>>,
      <<120514, 120538>>, <<120540, 120570>>, <<120572, 120596>>, <<120598, 120628>>, <<120630, 120654>>,
      <<120656, 120686>>, <<120688, 120712>>, <<120714, 120744>>, <<120746, 120770>>, <<120772, 120779>>,
      <<122624, 122654>>, <<123136, 123180>>, <<123191, 123197>>, <<123214, 123214>>, <<123536, 123565>>,
      <<123584, 123627>>, <<124896, 124902>>, <<124904, 124907>>, <<124909, 124910>>, <<124912, 124926>>,
      <<124928, 125124>>, <<125184, 125251>>, <<125259, 125259>>, <<126464, 126467>>, <<126469, 126495>>,
      <<126497, 126498>>, <<126500, 126500>>, <<126503, 126503>>, <<126505, 126514>>, <<126516, 126519>>,
      <<126521, 126521>>, <<126523, 126523>>, <<126530, 126530>>, <<126535, 126535>>, <<126537, 126537>>,
      <<126539, 126539>>, <<126541, 126543>>, <<126545, 126546>>, <<126548, 126548>>, <<126551, 126551>>,
      <<126553, 126553>>, <<126555, 126555>>, <<126557, 126557>>, <<126559, 126559>>, <<126561, 126562>>,
      <<126564, 126564>>, <<126567, 126570>>, <<126572, 126578>>, <<126580, 126583>>, <<126585, 126588>>,
      <<126590, 126590>>, <<126592, 126601>>, <<126603, 126619>>, <<126625, 126627>>, <<126629, 126633>>,
      <<126635, 126651>>, <<131072, 173791>>, <<173824, 177976>>, <<177984, 178205>>, <<178208, 183969>>,
      <<183984, 191456>>, <<194560, 195101>>, <<196608, 201546>> >>

\* The characters c with c.isnumeric() that are no decimal digits.
NumericRanges ==
    << <<178, 179>>, <<185, 185>>, <<188, 190>>, <<2548, 2553>>, <<2930, 2935>>,
      <<3056, 3058>>, <<3192, 3198>>, <<3416, 3422>>, <<3440, 3448>>, <<3882, 3891>>,
      <<4969, 4988>>, <<5870, 5872>>, <<6128, 6137>>, <<6618, 6618>>, <<8304, 8304>>,
      <<8308, 8313>>, <<8320, 8329>>, <<8528, 8578>>, <<8581, 8585>>, <<9312, 9371>>,
      <<9450, 9471>>, <<10102, 10131>>, <<11517, 11517>>, <<12295, 12295>>, <<12321, 12329>>,
      <<12344, 12346>>, <<12690, 12693>>, <<12832, 12841>>, <<12872, 12879>>, <<12881, 12895>>,
      <<12928, 12937>>, <<12977, 12991>>, <<13317, 13317>>, <<13443, 13443>>, <<14378, 14378>>,
      <<15181, 15181>>, <<19968, 19968>>, <<19971, 19971>>, <<19975, 19975>>, <<19977, 19977>>,
      <<20061, 20061>>, <<20108, 20108>>, <<20116, 20116>>, <<20118, 20118>>, <<20159, 20160>>,
      <<20191, 20191>>, <<20200, 20200>>, <<20237, 20237>>, <<20336, 20336>>, <<20740, 20740>>,
      <<20806, 20806>>, <<20841, 20841>>, <<20843, 20843>>, <<20845, 20845>>, <<21313, 21313>>,
      <<21315, 21317>>, <<21324, 21324>>, <<21441, 21444>>, <<22235, 22235>>, <<22769, 22769>>,
      <<22777, 22777>>, <<24186, 24186>>, <<24318, 24319>>, <<24332, 24334>>, <<24336, 24336>>,
      <<25342, 25342>>, <<25420, 25420>>, <<26578, 26578>>, <<28422, 28422>>, <<29590, 29590>>,
      <<30334, 30334>>, <<32902, 32902>>, <<33836, 33836>>, <<36014, 36014>>, <<36019, 36019>>,
      <<36144, 36144>>, <<38433, 38433>>, <<38470, 38470>>, <<38476, 38476>>, <<38520, 38520>>,
      <<38646, 38646>>, <<42726, 42735>>, <<43056, 43061>>, <<63851, 63851>>, <<63859, 63859>>,
      <<63864, 63864>>, <<63922, 63922>>, <<63953, 63953>>, <<63955, 63955>>, <<63997, 63997>>,
      <<65799, 65843>>, <<65856, 65912>>, <<65930, 65931>>, <<66273, 66299>>, <<66336, 66339>>,
      <<66369, 66369>>, <<66378, 66378>>, <<66513, 66517>>, <<67672, 67679>>, <<67705, 67711>>,
      <<67751, 67759>>, <<67835, 67839>>, <<67862, 67867>>, <<68028, 68029>>, <<68032, 68047>>,
      <<68050, 68095>>, <<68160, 68168>>, <<68221, 68222>>, <<68253, 68255>>, <<68331, 68335>>,
      <<68440, 68447>>, <<68472, 68479>>, <<68521, 68527>>, <<68858, 68863>>, <<69216, 69246>>,
      <<69405, 69414>>, <<69457, 69460>>, <<69573, 69579>>, <<69714, 69733>>, <<70113, 70132>>,
      <<71482, 71483>>, <<71914, 71922>>, <<72794, 72812>>, <<73664, 73684>>, <<74752, 74862>>,
      <<93019, 93025>>, <<93824, 93846>>, <<119520, 119539>>, <<119648, 119672>>, <<125127, 125135>>,
      <<126065, 126123>>, <<126125, 126127>>, <<126129, 126132>>, <<126209, 126253>>, <<126255, 126269>>,
      <<127232, 127244>>, <<131073, 131073>>, <<131172, 131172>>, <<131298, 131298>>, <<131361, 131361>>,
      <<133418, 133418>>, <<133507, 133507>>, <<133516, 133516>>, <<133532, 133532>>, <<133866, 133866>>,
      <<133885, 133885>>, <<133913, 133913>>, <<140176, 140176>>, <<141720, 141720>>, <<146203, 146203>>,
      <<156269, 156269>>, <<194704, 194704>> >>

\* The characters c with c.isdigit() that are no decimal digits: superscript,
\* subscript and circled digits.
OtherDigitRanges ==
    << <<178, 179>>, <<185, 185>>, <<4969, 4977>>, <<6618, 6618>>, <<8304, 8304>>,
      <<8308, 8313>>, <<8320, 8329>>, <<9312, 9320>>, <<9332, 9340>>, <<9352, 9360>>,
      <<9450, 9450>>, <<9461, 9469>>, <<9471, 9471>>, <<10102, 10110>>, <<10112, 10120>>,
      <<10122, 10130>>, <<68160, 68163>>, <<69216, 69224>>, <<69714, 69722>>, <<127232, 127242>> >>

\* The characters c with c.isspace().
SpaceRanges ==
    << <<9, 13>>, <<28, 32>>, <<133, 133>>, <<160, 160>>, <<5760, 5760>>,
      <<8192, 8202>>, <<8232, 8233>>, <<8239, 8239>>, <<8287, 8287>>, <<12288, 12288>> >>

\* The characters that c.lower() changes into one other character, as runs
\* <<first, last, step, offset>>.
LowerRuns ==
    << <<65, 90, 1, 32>>, <<192, 214, 1, 32>>, <<216, 222, 1, 32>>, <<256, 302, 2, 1>>,
      <<306, 310, 2, 1>>, <<313, 327, 2, 1>>, <<330, 374, 2, 1>>, <<376, 376, 1, -121>>,
      <<377, 381, 2, 1>>, <<385, 385, 1, 210>>, <<386, 388, 2, 1>>, <<390, 390, 1, 206>>,
      <<391, 391, 1, 1>>, <<393, 394, 1, 205>>, <<395, 395, 1, 1>>, <<398, 398, 1, 79>>,
      <<399, 399, 1, 202>>, <<400, 400, 1, 203>>, <<401, 401, 1, 1>>, <<403, 403, 1, 205>>,
      <<404, 404, 1, 207>>, <<406, 406, 1, 211>>, <<407, 407, 1, 209>>, <<408, 408, 1, 1>>,
      <<412, 412, 1, 211>>, <<413, 413, 1, 213>>, <<415, 415, 1, 214>>, <<416, 420, 2, 1>>,
      <<422, 422, 1, 218>>, <<423, 423, 1, 1>>, <<425, 425, 1, 218>>, <<428, 428, 1, 1>>,
      <<430, 430, 1, 218>>, <<431, 431, 1, 1>>, <<433, 434, 1, 217>>, <<435, 437, 2, 1>>,
      <<439, 439, 1, 219>>, <<440, 440, 1, 1>>, <<444, 444, 1, 1>>, <<452, 452, 1, 2>>,
      <<453, 453, 1, 1>>, <<455, 455, 1, 2>>, <<456, 456, 1, 1>>, <<458, 458, 1, 2>>,
      <<459, 475, 2, 1>>, <<478, 494, 2, 1>>, <<497, 497, 1, 2>>, <<498, 500, 2, 1>>,
      <<502, 502, 1, -97>>, <<503, 503, 1, -56>>, <<504, 542, 2, 1>>, <<544, 544, 1, -130>>,
      <<546, 562, 2, 1>>, <<570, 570, 1, 10795>>, <<571, 571, 1, 1>>, <<573, 573, 1, -163>>,
      <<574, 574, 1, 10792>>, <<577, 577, 1, 1>>, <<579, 579, 1, -195>>, <<580, 580, 1, 69>>,
      <<581, 581, 1, 71>>, <<582, 590, 2, 1>>, <<880, 882, 2, 1>>, <<886, 886, 1, 1>>,
      <<895, 895, 1, 116>>, <<902, 902, 1, 38>>, <<904, 906, 1, 37>>, <<908, 908, 1, 64>>,
      <<910, 911, 1, 63>>, <<913, 929, 1, 32>>, <<931, 939, 1, 32>>, <<975, 975, 1, 8>>,
      <<984, 1006, 2, 1>>, <<1012, 1012, 1, -60>>, <<1015, 1015, 1, 1>>, <<1017, 1017, 1, -7>>,
      <<1018, 1018, 1, 1>>, <<1021, 1023, 1, -130>>, <<1024, 1039, 1, 80>>, <<1040, 1071, 1, 32>>,
      <<1120, 1152, 2, 1>>, <<1162, 1214, 2, 1>>, <<1216, 1216, 1, 15>>, <<1217, 1229, 2, 1>>,
      <<1232, 1326, 2, 1>>, <<1329, 1366, 1, 48>>, <<4256, 4293, 1, 7264>>, <<4295, 4295, 1, 7264>>,
      <<4301, 4301, 1, 7264>>, <<5024, 5103, 1, 38864>>, <<5104, 5109, 1, 8>>, <<7312, 7354, 1, -3008>>,
      <<7357, 7359, 1, -3008>>, <<7680, 7828, 2, 1>>, <<7838, 7838, 1, -7615>>, <<7840, 7934, 2, 1>>,
      <<7944, 7951, 1, -8>>, <<7960, 7965, 1, -8>>, <<7976, 7983, 1, -8>>, <<7992, 7999, 1, -8>>,
      <<8008, 8013, 1, -8>>, <<8025, 8031, 2, -8>>, <<8040, 8047, 1, -8>>, <<8072, 8079, 1, -8>>,
      <<8088, 8095, 1, -8>>, <<8104, 8111, 1, -8>>, <<8120, 8121, 1, -8>>, <<8122, 8123, 1, -74>>,
      <<8124, 8124, 1, -9>>, <<8136, 8139, 1, -86>>, <<8140, 8140, 1, -9>>, <<8152, 8153, 1, -8>>,
      <<8154, 8155, 1, -100>>, <<8168, 8169, 1, -8>>, <<8170, 8171, 1, -112>>, <<8172, 8172, 1, -7>>,
      <<8184, 8185, 1, -128>>, <<8186, 8187, 1, -126>>, <<8188, 8188, 1, -9>>, <<8486, 8486, 1, -7517>>,
      <<8490, 8490, 1, -8383>>, <<8491, 8491, 1, -8262>>, <<8498, 8498, 1, 28>>, <<8544, 8559, 1, 16>>,
      <<8579, 8579, 1, 1>>, <<9398, 9423, 1, 26>>, <<11264, 11311, 1, 48>>, <<11360, 11360, 1, 1>>,
      <<11362, 11362, 1, -10743>>, <<11363, 11363, 1, -3814>>, <<11364, 11364, 1, -10727>>, <<11367, 11371, 2, 1>>,
      <<11373, 11373, 1, -10780>>, <<11374, 11374, 1, -10749>>, <<11375, 11375, 1, -10783>>, <<11376, 11376, 1, -10782>>,
      <<11378, 11378, 1, 1>>, <<11381, 11381, 1, 1>>, <<11390, 11391, 1, -10815>>, <<11392, 11490, 2, 1>>,
      <<11499, 11501, 2, 1>>, <<11506, 11506, 1, 1>>, <<42560, 42604, 2, 1>>, <<42624, 42650, 2, 1>>,
      <<42786, 42798, 2, 1>>, <<42802, 42862, 2, 1>>, <<42873, 42875, 2, 1>>, <<42877, 42877, 1, -35332>>,
      <<42878, 42886, 2, 1>>, <<42891, 42891, 1, 1>>, <<42893, 42893, 1, -42280>>, <<42896, 42898, 2, 1>>,
      <<42902, 42920, 2, 1>>, <<42922, 42922, 1, -42308>>, <<42923, 42923, 1, -42319>>, <<42924, 42924, 1, -42315>>,
      <<42925, 42925, 1, -42305>>, <<42926, 42926, 1, -42308>>, <<42928, 42928, 1, -42258>>, <<42929, 42929, 1, -42282>>,
      <<42930, 42930, 1, -42261>>, <<42931, 42931, 1, 928>>, <<42932, 42946, 2, 1>>, <<42948, 42948, 1, -48>>,
      <<42949, 42949, 1, -42307>>, <<42950, 42950, 1, -35384>>, <<42951, 42953, 2, 1>>, <<42960, 42960, 1, 1>>,
      <<42966, 42968, 2, 1>>, <<42997, 42997, 1, 1>>, <<65313, 65338, 1, 32>>, <<66560, 66599, 1, 40>>,
      <<66736, 66771, 1, 40>>, <<66928, 66938, 1, 39>>, <<66940, 66954, 1, 39>>, <<66956, 66962, 1, 39>>,
      <<66964, 66965, 1, 39>>, <<68736, 68786, 1, 64>>, <<71840, 71871, 1, 32>>, <<93760, 93791, 1, 32>>,
      <<125184, 125217, 1, 34>> >>

\* The characters that c.lower() changes into several characters.
LowerSpecial ==
    << <<304, <<105, 775>>>> >>

\* The characters that c.upper() changes into one other character, as runs
\* <<first, last, step, offset>>.
UpperRuns ==
    << <<97, 122, 1, -32>>, <<181, 181, 1, 743>>, <<224, 246, 1, -32>>, <<248, 254, 1, -32>>,
      <<255, 255, 1, 121>>, <<257, 303, 2, -1>>, <<305, 305, 1, -232>>, <<307, 311, 2, -1>>,
      <<314, 328, 2, -1>>, <<331, 375, 2, -1>>, <<378, 382, 2, -1>>, <<383, 383, 1, -300>>,
      <<384, 384, 1, 195>>, <<387, 389, 2, -1>>, <<392, 392, 1, -1>>, <<396, 396, 1, -1>>,
      <<402, 402, 1, -1>>, <<405, 405, 1, 97>>, <<409, 409, 1, -1>>, <<410, 410, 1, 163>>,
      <<414, 414, 1, 130>>, <<417, 421, 2, -1>>, <<424, 424, 1, -1>>, <<429, 429, 1, -1>>,
      <<432, 432, 1, -1>>, <<436, 438, 2, -1>>, <<441, 441, 1, -1>>, <<445, 445, 1, -1>>,
      <<447, 447, 1, 56>>, <<453, 453, 1, -1>>, <<454, 454, 1, -2>>, <<456, 456, 1, -1>>,
      <<457, 457, 1, -2>>, <<459, 459, 1, -1>>, <<460, 460, 1, -2>>, <<462, 476, 2, -1>>,
      <<477, 477, 1, -79>>, <<479, 495, 2, -1>>, <<498, 498, 1, -1>>, <<499, 499, 1, -2>>,
      <<501, 501, 1, -1>>, <<505, 543, 2, -1>>, <<547, 563, 2, -1>>, <<572, 572, 1, -1>>,
      <<575, 576, 1, 10815>>, <<578, 578, 1, -1>>, <<583, 591, 2, -1>>, <<592, 592, 1, 10783>>,
      <<593, 593, 1, 10780>>, <<594, 594, 1, 10782>>, <<595, 595, 1, -210>>, <<596, 596, 1, -206>>,
      <<598, 599, 1, -205>>, <<601, 601, 1, -202>>, <<603, 603, 1, -203>>, <<604, 604, 1, 42319>>,
      <<608, 608, 1, -205>>, <<609, 609, 1, 42315>>, <<611, 611, 1, -207>>, <<613, 613, 1, 42280>>,
      <<614, 614, 1, 42308>>, <<616, 616, 1, -209>>, <<617, 617, 1, -211>>, <<618, 618, 1, 42308>>,
      <<619, 619, 1, 10743>>, <<620, 620, 1, 42305>>, <<623, 623, 1, -211>>, <<625, 625, 1, 10749>>,
      <<626, 626, 1, -213>>, <<629, 629, 1, -214>>, <<637, 637, 1, 10727>>, <<640, 640, 1, -218>>,
      <<642, 642, 1, 42307>>, <<643, 643, 1, -218>>, <<647, 647, 1, 42282>>, <<648, 648, 1, -218>>,
      <<649, 649, 1, -69>>, <<650, 651, 1, -217>>, <<652, 652, 1, -71>>, <<658, 658, 1, -219>>,
      <<669, 669, 1, 42261>>, <<670, 670, 1, 42258>>, <<837, 837, 1, 84>>, <<881, 883, 2, -1>>,
      <<887, 887, 1, -1>>, <<891, 893, 1, 130>>, <<940, 940, 1, -38>>, <<941, 943, 1, -37>>,
      <<945, 961, 1, -32>>, <<962, 962, 1, -31>>, <<963, 971, 1, -32>>, <<972, 972, 1, -64>>,
      <<973, 974, 1, -63>>, <<976, 976, 1, -62>>, <<977, 977, 1, -57>>, <<981, 981, 1, -47>>,
      <<982, 982, 1, -54>>, <<983, 983, 1, -8>>, <<985, 1007, 2, -1>>, <<1008, 1008, 1, -86>>,
      <<1009, 1009, 1, -80>>, <<1010, 1010, 1, 7>>, <<1011, 1011, 1, -116>>, <<1013, 1013, 1, -96>>,
      <<1016, 1016, 1, -1>>, <<1019, 1019, 1, -1>>, <<1072, 1103, 1, -32>>, <<1104, 1119, 1, -80>>,
      <<1121, 1153, 2, -1>>, <<1163, 1215, 2, -1>>, <<1218, 1230, 2, -1>>, <<1231, 1231, 1, -15>>,
      <<1233, 1327, 2, -1>>, <<1377, 1414, 1, -48>>, <<4304, 4346, 1, 3008>>, <<4349, 4351, 1, 3008>>,
      <<5112, 5117, 1, -8>>, <<7296, 7296, 1, -6254>>, <<7297, 7297, 1, -6253>>, <<7298, 7298, 1, -6244>>,
      <<7299, 7300, 1, -6242>>, <<7301, 7301, 1, -6243>>, <<7302, 7302, 1, -6236>>, <<7303, 7303, 1, -6181>>,
      <<7304, 7304, 1, 35266>>, <<7545, 7545, 1, 35332>>, <<7549, 7549, 1, 3814>>, <<7566, 7566, 1, 35384>>,
      <<7681, 7829, 2, -1>>, <<7835, 7835, 1, -59>>, <<7841, 7935, 2, -1>>, <<7936, 7943, 1, 8>>,
      <<7952, 7957, 1, 8>>, <<7968, 7975, 1, 8>>, <<7984, 7991, 1, 8>>, <<8000, 8005, 1, 8>>,
      <<8017, 8023, 2, 8>>, <<8032, 8039, 1, 8>>, <<8048, 8049, 1, 74>>, <<8050, 8053, 1, 86>>,
      <<8054, 8055, 1, 100>>, <<8056, 8057, 1, 128>>, <<8058, 8059, 1, 112>>, <<8060, 8061, 1, 126>>,
      <<8112, 8113, 1, 8>>, <<8126, 8126, 1, -7205>>, <<8144, 8145, 1, 8>>, <<8160, 8161, 1, 8>>,
      <<8165, 8165, 1, 7>>, <<8526, 8526, 1, -28>>, <<8560, 8575, 1, -16>>, <<8580, 8580, 1, -1>>,
      <<9424, 9449, 1, -26>>, <<11312, 11359, 1, -48>>, <<11361, 11361, 1, -1>>, <<11365, 11365, 1, -10795>>,
      <<11366, 11366, 1, -10792>>, <<11368, 11372, 2, -1>>, <<11379, 11379, 1, -1>>, <<11382, 11382, 1, -1>>,
      <<11393, 11491, 2, -1>>, <<11500, 11502, 2, -1>>, <<11507, 11507, 1, -1>>, <<11520, 11557, 1, -7264>>,
      <<11559, 11559, 1, -7264>>, <<11565, 11565, 1, -7264>>, <<42561, 42605, 2, -1>>, <<42625, 42651, 2, -1>>,
      <<42787, 42799, 2, -1>>, <<42803, 42863, 2, -1>>, <<42874, 42876, 2, -1>>, <<42879, 42887, 2, -1>>,
      <<42892, 42892, 1, -1>>, <<42897, 42899, 2, -1>>, <<42900, 42900, 1, 48>>, <<42903, 42921, 2, -1>>,
      <<42933, 42947, 2, -1>>, <<42952, 42954, 2, -1>>, <<42961, 42961, 1, -1>>, <<42967, 42969, 2, -1>>,
      <<42998, 42998, 1, -1>>, <<43859, 43859, 1, -928>>, <<43888, 43967, 1, -38864>>, <<65345, 65370, 1, -32>>,
      <<66600, 66639, 1, -40>>, <<66776, 66811, 1, -40>>, <<66967, 66977, 1, -39>>, <<66979, 66993, 1, -39>>,
      <<66995, 67001, 1, -39>>, <<67003, 67004, 1, -39>>, <<68800, 68850, 1, -64>>, <<71872, 71903, 1, -32>>,
      <<93792, 93823, 1, -32>>, <<125218, 125251, 1, -34>> >>

\* The characters that c.upper() changes into several characters.
UpperSpecial ==
    << <<223, <<83, 83>>>>, <<329, <<700, 78>>>>, <<496, <<74, 780>>>>, <<912, <<921, 776, 769>>>>,
      <<944, <<933, 776, 769>>>>, <<1415, <<1333, 1362>>>>, <<7830, <<72, 817>>>>, <<7831, <<84, 776>>>>,
      <<7832, <<87, 778>>>>, <<7833, <<89, 778>>>>, <<7834, <<65, 702>>>>, <<8016, <<933, 787>>>>,
      <<8018, <<933, 787, 768>>>>, <<8020, <<933, 787, 769>>>>, <<8022, <<933, 787, 834>>>>, <<8064, <<7944, 921>>>>,
      <<8065, <<7945, 921>>>>, <<8066, <<7946, 921>>>>, <<8067, <<7947, 921>>>>, <<8068, <<7948, 921>>>>,
      <<8069, <<7949, 921>>>>, <<8070, <<7950, 921>>>>, <<8071, <<7951, 921>>>>, <<8072, <<7944, 921>>>>,
      <<8073, <<7945, 921>>>>, <<8074, <<7946, 921>>>>, <<8075, <<7947, 921>>>>, <<8076, <<7948, 921>>>>,
      <<8077, <<7949, 921>>>>, <<8078, <<7950, 921>>>>, <<8079, <<7951, 921>>>>, <<8080, <<7976, 921>>>>,
      <<8081, <<7977, 921>>>>, <<8082, <<7978, 921>>>>, <<8083, <<7979, 921>>>>, <<8084, <<7980, 921>>>>,
      <<8085, <<7981, 921>>>>, <<8086, <<7982, 921>>>>, <<8087, <<7983, 921>>>>, <<8088, <<7976, 921>>>>,
      <<8089, <<7977, 921>>>>, <<8090, <<7978, 921>>>>, <<8091, <<7979, 921>>>>, <<8092, <<7980, 921>>>>,
      <<8093, <<7981, 921>>>>, <<8094, <<7982, 921>>>>, <<8095, <<7983, 921>>>>, <<8096, <<8040, 921>>>>,
      <<8097, <<8041, 921>>>>, <<8098, <<8042, 921>>>>, <<8099, <<8043, 921>>>>, <<8100, <<8044, 921>>>>,
      <<8101, <<8045, 921>>>>, <<8102, <<8046, 921>>>>, <<8103, <<8047, 921>>>>, <<8104, <<8040, 921>>>>,
      <<8105, <<8041, 921>>>>, <<8106, <<8042, 921>>>>, <<8107, <<8043, 921>>>>, <<8108, <<8044, 921>>>>,
      <<8109, <<8045, 921>>>>, <<8110, <<8046, 921>>>>, <<8111, <<8047, 921>>>>, <<8114, <<8122, 921>>>>,
      <<8115, <<913, 921>>>>, <<8116, <<902, 921>>>>, <<8118, <<913, 834>>>>, <<8119, <<913, 834, 921>>>>,
      <<8124, <<913, 921>>>>, <<8130, <<8138, 921>>>>, <<8131, <<919, 921>>>>, <<8132, <<905, 921>>>>,
      <<8134, <<919, 834>>>>, <<8135, <<919, 834, 921>>>>, <<8140, <<919, 921>>>>, <<8146, <<921, 776, 768>>>>,
      <<8147, <<921, 776, 769>>>>, <<8150, <<921, 834>>>>, <<8151, <<921, 776, 834>>>>, <<8162, <<933, 776, 768>>>>,
      <<8163, <<933, 776, 769>>>>, <<8164, <<929, 787>>>>, <<8166, <<933, 834>>>>, <<8167, <<933, 776, 834>>>>,
      <<8178, <<8186, 921>>>>, <<8179, <<937, 921>>>>, <<8180, <<911, 921>>>>, <<8182, <<937, 834>>>>,
      <<8183, <<937, 834, 921>>>>, <<8188, <<937, 921>>>>, <<64256, <<70, 70>>>>, <<64257, <<70, 73>>>>,
      <<64258, <<70, 76>>>>, <<64259, <<70, 70, 73>>>>, <<64260, <<70, 70, 76>>>>, <<64261, <<83, 84>>>>,
      <<64262, <<83, 84>>>>, <<64275, <<1348, 1350>>>>, <<64276, <<1348, 1333>>>>, <<64277, <<1348, 1339>>>>,
      <<64278, <<1358, 1350>>>>, <<64279, <<1348, 1341>>>> >>
\* The characters that str.lower() skips when it looks for the letters around
\* a capital sigma (Case_Ignorable).
CaseIgnorableRanges ==
    << <<39, 39>>, <<46, 46>>, <<58, 58>>, <<94, 94>>, <<96, 96>>,
      <<168, 168>>, <<173, 173>>, <<175, 175>>, <<180, 180>>, <<183, 184>>,
      <<688, 879>>, <<884, 885>>, <<890, 890>>, <<900, 901>>, <<903, 903>>,
      <<1155, 1161>>, <<1369, 1369>>, <<1375, 1375>>, <<1425, 1469>>, <<1471, 1471>>,
      <<1473, 1474>>, <<1476, 1477>>, <<1479, 1479>>, <<1524, 1524>>, <<1536, 1541>>,
      <<1552, 1562>>, <<1564, 1564>>, <<1600, 1600>>, <<1611, 1631>>, <<1648, 1648>>,
      <<1750, 1757>>, <<1759, 1768>>, <<1770, 1773>>, <<1807, 1807>>, <<1809, 1809>>,
      <<1840, 1866>>, <<1958, 1968>>, <<2027, 2037>>, <<2042, 2042>>, <<2045, 2045>>,
      <<2070, 2093>>, <<2137, 2139>>, <<2184, 2184>>, <<2192, 2193>>, <<2200, 2207>>,
      <<2249, 2306>>, <<2362, 2362>>, <<2364, 2364>>, <<2369, 2376>>, <<2381, 2381>>,
      <<2385, 2391>>, <<2402, 2403>>, <<2417, 2417>>, <<2433, 2433>>, <<2492, 2492>>,
      <<2497, 2500>>, <<2509, 2509>>, <<2530, 2531>>, <<2558, 2558>>, <<2561, 2562>>,
      <<2620, 2620>>, <<2625, 2626>>, <<2631, 2632>>, <<2635, 2637>>, <<2641, 2641>>,
      <<2672, 2673>>, <<2677, 2677>>, <<2689, 2690>>, <<2748, 2748>>, <<2753, 2757>>,
      <<2759, 2760>>, <<2765, 2765>>, <<2786, 2787>>, <<2810, 2815>>, <<2817, 2817>>,
      <<2876, 2876>>, <<2879, 2879>>, <<2881, 2884>>, <<2893, 2893>>, <<2901, 2902>>,
      <<2914, 2915>>, <<2946, 2946>>, <<3008, 3008>>, <<3021, 3021>>, <<3072, 3072>>,
      <<3076, 3076>>, <<3132, 3132>>, <<3134, 3136>>, <<3142, 3144>>, <<3146, 3149>>,
      <<3157, 3158>>, <<3170, 3171>>, <<3201, 3201>>, <<3260, 3260>>, <<3263, 3263>>,
      <<3270, 3270>>, <<3276, 3277>>, <<3298, 3299>>, <<3328, 3329>>, <<3387, 3388>>,
      <<3393, 3396>>, <<3405, 3405>>, <<3426, 3427>>, <<3457, 3457>>, <<3530, 3530>>,
      <<3538, 3540>>, <<3542, 3542>>, <<3633, 3633>>, <<3636, 3642>>, <<3654, 3662>>,
      <<3761, 3761>>, <<3764, 3772>>, <<3782, 3782>>, <<3784, 3789>>, <<3864, 3865>>,
      <<3893, 3893>>, <<3895, 3895>>, <<3897, 3897>>, <<3953, 3966>>, <<3968, 3972>>,
      <<3974, 3975>>, <<3981, 3991>>, <<3993, 4028>>, <<4038, 4038>>, <<4141, 4144>>,
      <<4146, 4151>>, <<4153, 4154>>, <<4157, 4158>>, <<4184, 4185>>, <<4190, 4192>>,
      <<4209, 4212>>, <<4226, 4226>>, <<4229, 4230>>, <<4237, 4237>>, <<4253, 4253>>,
      <<4348, 4348>>, <<4957, 4959>>, <<5906, 5908>>, <<5938, 5939>>, <<5970, 5971>>,
      <<6002, 6003>>, <<6068, 6069>>, <<6071, 6077>>, <<6086, 6086>>, <<6089, 6099>>,
      <<6103, 6103>>, <<6109, 6109>>, <<6155, 6159>>, <<6211, 6211>>, <<6277, 6278>>,
      <<6313, 6313>>, <<6432, 6434>>, <<6439, 6440>>, <<6450, 6450>>, <<6457, 6459>>,
      <<6679, 6680>>, <<6683, 6683>>, <<6742, 6742>>, <<6744, 6750>>, <<6752, 6752>>,
      <<6754, 6754>>, <<6757, 6764>>, <<6771, 6780>>, <<6783, 6783>>, <<6823, 6823>>,
      <<6832, 6862>>, <<6912, 6915>>, <<6964, 6964>>, <<6966, 6970>>, <<6972, 6972>>,
      <<6978, 6978>>, <<7019, 7027>>, <<7040, 7041>>, <<7074, 7077>>, <<7080, 7081>>,
      <<7083, 7085>>, <<7142, 7142>>, <<7144, 7145>>, <<7149, 7149>>, <<7151, 7153>>,
      <<7212, 7219>>, <<7222, 7223>>, <<7288, 7293>>, <<7376, 7378>>, <<7380, 7392>>,
      <<7394, 7400>>, <<7405, 7405>>, <<7412, 7412>>, <<7416, 7417>>, <<7468, 7530>>,
      <<7544, 7544>>, <<7579, 7679>>, <<8125, 8125>>, <<8127, 8129>>, <<8141, 8143>>,
      <<8157, 8159>>, <<8173, 8175>>, <<8189, 8190>>, <<8203, 8207>>, <<8216, 8217>>,
      <<8228, 8228>>, <<8231, 8231>>, <<8234, 8238>>, <<8288, 8292>>, <<8294, 8303>>,
      <<8305, 8305>>, <<8319, 8319>>, <<8336, 8348>>, <<8400, 8432>>, <<11388, 11389>>,
      <<11503, 11505>>, <<11631, 11631>>, <<11647, 11647>>, <<11744, 11775>>, <<11823, 11823>>,
      <<12293, 12293>>, <<12330, 12333>>, <<12337, 12341>>, <<12347, 12347>>, <<12441, 12446>>,
      <<12540, 12542>>, <<40981, 40981>>, <<42232, 42237>>, <<42508, 42508>>, <<42607, 42610>>,
      <<42612, 42621>>, <<42623, 42623>>, <<42652, 42655>>, <<42736, 42737>>, <<42752, 42785>>,
      <<42864, 42864>>, <<42888, 42890>>, <<42994, 42996>>, <<43000, 43001>>, <<43010, 43010>>,
      <<43014, 43014>>, <<43019, 43019>>, <<43045, 43046>>, <<43052, 43052>>, <<43204, 43205>>,
      <<43232, 43249>>, <<43263, 43263>>, <<43302, 43309>>, <<43335, 43345>>, <<43392, 43394>>,
      <<43443, 43443>>, <<43446, 43449>>, <<43452, 43453>>, <<43471, 43471>>, <<43493, 43494>>,
      <<43561, 43566>>, <<43569, 43570>>, <<43573, 43574>>, <<43587, 43587>>, <<43596, 43596>>,
      <<43632, 43632>>, <<43644, 43644>>, <<43696, 43696>>, <<43698, 43700>>, <<43703, 43704>>,
      <<43710, 43711>>, <<43713, 43713>>, <<43741, 43741>>, <<43756, 43757>>, <<43763, 43764>>,
      <<43766, 43766>>, <<43867, 43871>>, <<43881, 43883>>, <<44005, 44005>>, <<44008, 44008>>,
      <<44013, 44013>>, <<64286, 64286>>, <<64434, 64450>>, <<65024, 65039>>, <<65043, 65043>>,
      <<65056, 65071>>, <<65106, 65106>>, <<65109, 65109>>, <<65279, 65279>>, <<65287, 65287>>,
      <<65294, 65294>>, <<65306, 65306>>, <<65342, 65342>>, <<65344, 65344>>, <<65392, 65392>>,
      <<65438, 65439>>, <<65507, 65507>>, <<65529, 65531>>, <<66045, 66045>>, <<66272, 66272>>,
      <<66422, 66426>>, <<67456, 67461>>, <<67463, 67504>>, <<67506, 67514>>, <<68097, 68099>>,
      <<68101, 68102>>, <<68108, 68111>>, <<68152, 68154>>, <<68159, 68159>>, <<68325, 68326>>,
      <<68900, 68903>>, <<69291, 69292>>, <<69446, 69456>>, <<69506, 69509>>, <<69633, 69633>>,
      <<69688, 69702>>, <<69744, 69744>>, <<69747, 69748>>, <<69759, 69761>>, <<69811, 69814>>,
      <<69817, 69818>>, <<69821, 69821>>, <<69826, 69826>>, <<69837, 69837>>, <<69888, 69890>>,
      <<69927, 69931>>, <<69933, 69940>>, <<70003, 70003>>, <<70016, 70017>>, <<70070, 70078>>,
      <<70089, 70092>>, <<70095, 70095>>, <<70191, 70193>>, <<70196, 70196>>, <<70198, 70199>>,
      <<70206, 70206>>, <<70367, 70367>>, <<70371, 70378>>, <<70400, 70401>>, <<70459, 70460>>,
      <<70464, 70464>>, <<70502, 70508>>, <<70512, 70516>>, <<70712, 70719>>, <<70722, 70724>>,
      <<70726, 70726>>, <<70750, 70750>>, <<70835, 70840>>, <<70842, 70842>>, <<70847, 70848>>,
      <<70850, 70851>>, <<71090, 71093>>, <<71100, 71101>>, <<71103, 71104>>, <<71132, 71133>>,
      <<71219, 71226>>, <<71229, 71229>>, <<71231, 71232>>, <<71339, 71339>>, <<71341, 71341>>,
      <<71344, 71349>>, <<71351, 71351>>, <<71453, 71455>>, <<71458, 71461>>, <<71463, 71467>>,
      <<71727, 71735>>, <<71737, 71738>>, <<71995, 71996>>, <<71998, 71998>>, <<72003, 72003>>,
      <<72148, 72151>>, <<72154, 72155>>, <<72160, 72160>>, <<72193, 72202>>, <<72243, 72248>>,
      <<72251, 72254>>, <<72263, 72263>>, <<72273, 72278>>, <<72281, 72283>>, <<72330, 72342>>,
      <<72344, 72345>>, <<72752, 72758>>, <<72760, 72765>>, <<72767, 72767>>, <<72850, 72871>>,
      <<72874, 72880>>, <<72882, 72883>>, <<72885, 72886>>, <<73009, 73014>>, <<73018, 73018>>,
      <<73020, 73021>>, <<73023, 73029>>, <<73031, 73031>>, <<73104, 73105>>, <<73109, 73109>>,
      <<73111, 73111>>, <<73459, 73460>>, <<78896, 78904>>, <<92912, 92916>>, <<92976, 92982>>,
      <<92992, 92995>>, <<94031, 94031>>, <<94095, 94111>>, <<94176, 94177>>, <<94179, 94180>>,
      <<110576, 110579>>, <<110581, 110587>>, <<110589, 110590>>, <<113821, 113822>>, <<113824, 113827>>,
      <<118528, 118573>>, <<118576, 118598>>, <<119143, 119145>>, <<119155, 119170>>, <<119173, 119179>>,
      <<119210, 119213>>, <<119362, 119364>>, <<121344, 121398>>, <<121403, 121452>>, <<121461, 121461>>,
      <<121476, 121476>>, <<121499, 121503>>, <<121505, 121519>>, <<122880, 122886>>, <<122888, 122904>>,
      <<122907, 122913>>, <<122915, 122916>>, <<122918, 122922>>, <<123184, 123197>>, <<123566, 123566>>,
      <<123628, 123631>>, <<125136, 125142>>, <<125252, 125259>>, <<127995, 127999>>, <<917505, 917505>>,
      <<917536, 917631>>, <<917760, 917999>> >>

\* The cased letters str.lower() stops at (Cased and not Case_Ignorable).
CasedRanges ==
    << <<65, 90>>, <<97, 122>>, <<170, 170>>, <<181, 181>>, <<186, 186>>,
      <<192, 214>>, <<216, 246>>, <<248, 442>>, <<444, 447>>, <<452, 659>>,
      <<661, 687>>, <<880, 883>>, <<886, 887>>, <<891, 893>>, <<895, 895>>,
      <<902, 902>>, <<904, 906>>, <<908, 908>>, <<910, 929>>, <<931, 1013>>,
      <<1015, 1153>>, <<1162, 1327>>, <<1329, 1366>>, <<1376, 1416>>, <<4256, 4293>>,
      <<4295, 4295>>, <<4301, 4301>>, <<4304, 4346>>, <<4349, 4351>>, <<5024, 5109>>,
      <<5112, 5117>>, <<7296, 7304>>, <<7312, 7354>>, <<7357, 7359>>, <<7424, 7467>>,
      <<7531, 7543>>, <<7545, 7578>>, <<7680, 7957>>, <<7960, 7965>>, <<7968, 8005>>,
      <<8008, 8013>>, <<8016, 8023>>, <<8025, 8025>>, <<8027, 8027>>, <<8029, 8029>>,
      <<8031, 8061>>, <<8064, 8116>>, <<8118, 8124>>, <<8126, 8126>>, <<8130, 8132>>,
      <<8134, 8140>>, <<8144, 8147>>, <<8150, 8155>>, <<8160, 8172>>, <<8178, 8180>>,
      <<8182, 8188>>, <<8450, 8450>>, <<8455, 8455>>, <<8458, 8467>>, <<8469, 8469>>,
      <<8473, 8477>>, <<8484, 8484>>, <<8486, 8486>>, <<8488, 8488>>, <<8490, 8493>>,
      <<8495, 8500>>, <<8505, 8505>>, <<8508, 8511>>, <<8517, 8521>>, <<8526, 8526>>,
      <<8544, 8575>>, <<8579, 8580>>, <<9398, 9449>>, <<11264, 11387>>, <<11390, 11492>>,
      <<11499, 11502>>, <<11506, 11507>>, <<11520, 11557>>, <<11559, 11559>>, <<11565, 11565>>,
      <<42560, 42605>>, <<42624, 42651>>, <<42786, 42863>>, <<42865, 42887>>, <<42891, 42894>>,
      <<42896, 42954>>, <<42960, 42961>>, <<42963, 42963>>, <<42965, 42969>>, <<42997, 42998>>,
      <<43002, 43002>>, <<43824, 43866>>, <<43872, 43880>>, <<43888, 43967>>, <<64256, 64262>>,
      <<64275, 64279>>, <<65313, 65338>>, <<65345, 65370>>, <<66560, 66639>>, <<66736, 66771>>,
      <<66776, 66811>>, <<66928, 66938>>, <<66940, 66954>>, <<66956, 66962>>, <<66964, 66965>>,
      <<66967, 66977>>, <<66979, 66993>>, <<66995, 67001>>, <<67003, 67004>>, <<68736, 68786>>,
      <<68800, 68850>>, <<71840, 71903>>, <<93760, 93823>>, <<119808, 119892>>, <<119894, 119964>>,
      <<119966, 119967>>, <<119970, 119970>>, <<119973, 119974>>, <<119977, 119980>>, <<119982, 119993>>,
      <<119995, 119995>>, <<119997, 120003>>, <<120005, 120069>>, <<120071, 120074>>, <<120077, 120084>>,
      <<120086, 120092>>, <<120094, 120121>>, <<120123, 120126>>, <<120128, 120132>>, <<120134, 120134>>,
      <<120138, 120144>>, <<120146, 120485>>, <<120488, 120512>>, <<120514, 120538>>, <<120540, 120570>>,
      <<120572, 120596>>, <<120598, 120628>>, <<120630, 120654>>, <<120656, 120686>>, <<120688, 120712>>,
      <<120714, 120744>>, <<120746, 120770>>, <<120772, 120779>>, <<122624, 122633>>, <<122635, 122654>>,
      <<125184, 125251>>, <<127280, 127305>>, <<127312, 127337>>, <<127344, 127369>> >>
RECURSIVE Find(_, _, _, _)
\* the index of the last row between lo and hi of the sorted table t whose
\* first field is at most c; lo - 1 when there is none
Find(t, c, lo, hi) ==
    IF lo > hi THEN lo - 1
    ELSE LET mid == (lo + hi) \div 2
         IN  IF t[mid][1] <= c THEN Find(t, c, mid + 1, hi)
             ELSE Find(t, c, lo, mid - 1)

\* the row of t that may hold c; 0 when every row starts after c
Row(t, c) == Find(t, c, 1, Len(t))

InRanges(c, t) == LET Within(k) == k > 0 /\ c <= t[k][2] IN Within(Row(t, c))

\* the characters of a table of ranges
Chars(t) == UNION { t[k][1]..t[k][2] : k \in 1..Len(t) }

\* \d of the re module, str.isdecimal()
Digits == Chars(DecimalRanges)

\* int(c) of a decimal digit
DigitValue(c) == c - DecimalRanges[Row(DecimalRanges, c)][1]

\* [0-9]
AsciiDigits == 48..57

\* [a-z]
LowerLetters == 97..122

\* [A-Z]
UpperLetters == 65..90

\* [a-zA-Z]
Letters == LowerLetters \cup UpperLetters

\* str.isalpha() of one character
Alpha == Chars(AlphaRanges)

\* str.isdigit() of one character
DigitChars == Digits \cup Chars(OtherDigitRanges)

\* [^\W\d_] of the re module: a letter, or a numeric character that is no
\* decimal digit (U+00BD, U+00B2, U+2160)
UnicodeLetters == Alpha \cup Chars(NumericRanges)

\* \w of the re module: str.isalnum() or "_"
WordChars == UnicodeLetters \cup Digits \cup { 95 }

\* the whitespace that str.strip() removes and \s matches: str.isspace()
PyWhitespace == Chars(SpaceRanges)

\* c.lower() or c.upper() of one character, by its tables
CaseChar(c, runs, special) ==
    LET Mapped(k, j) ==
            IF k > 0 /\ c <= runs[k][2] /\ (c - runs[k][1]) % runs[k][3] = 0
            THEN << c + runs[k][4] >>
            ELSE IF j > 0 /\ special[j][1] = c THEN special[j][2]
            ELSE << c >>
    IN  Mapped(Row(runs, c), Row(special, c))

\* c.lower() of a one-character string
LowerChar(c) == CaseChar(c, LowerRuns, LowerSpecial)

\* c.upper()
UpperChar(c) == CaseChar(c, UpperRuns, UpperSpecial)

RECURSIVE SolidBefore(_, _)
\* the position of the last character of s up to k that is not
\* case-ignorable; 0 when there is none
SolidBefore(s, k) ==
    IF k = 0 THEN 0
    ELSE IF InRanges(s[k], CaseIgnorableRanges) THEN SolidBefore(s, k - 1)
    ELSE k

RECURSIVE SolidAfter(_, _)
\* the position of the first character of s from k on that is not
\* case-ignorable; Len(s) + 1 when there is none
SolidAfter(s, k) ==
    IF k > Len(s) THEN k
    ELSE IF InRanges(s[k], CaseIgnorableRanges) THEN SolidAfter(s, k + 1)
    ELSE k

\* the capital sigma at position k ends a word: a cased letter stands before
\* it and none after it
FinalSigma(s, k) ==
    LET Between(before, after) ==
            /\ before > 0
            /\ InRanges(s[before], CasedRanges)
            /\ (after > Len(s) \/ ~InRanges(s[after], CasedRanges))
    IN  Between(SolidBefore(s, k - 1), SolidAfter(s, k + 1))

RECURSIVE LowerFrom(_, _)
LowerFrom(s, k) ==
    IF k > Len(s) THEN << >>
    ELSE (IF s[k] = 931 THEN (IF FinalSigma(s, k) THEN << 962 >> ELSE << 963 >>)
          ELSE LowerChar(s[k]))
         \o LowerFrom(s, k + 1)

\* str.lower()
Lower(s) == LowerFrom(s, 1)

RECURSIVE Upper(_)
\* str.upper()
Upper(s) == IF s = << >> THEN << >> ELSE UpperChar(Head(s)) \o Upper(Tail(s))

AllIn(s, cls) == \A k \in 1..Len(s) : s[k] \in cls

AnyIn(s, cls) == \E k \in 1..Len(s) : s[k] \in cls

\* s.startswith(pre)
StartsWith(s, pre) == Len(s) >= Len(pre) /\ SubSeq(s, 1, Len(pre)) = pre

\* s.endswith(suf)
EndsWith(s, suf) ==
    Len(s) >= Len(suf) /\ SubSeq(s, Len(s) - Len(suf) + 1, Len(s)) = suf

\* sub in s
Has(s, sub) == \E k \in 1..(Len(s) - Len(sub) + 1) : SubSeq(s, k, k + Len(sub) - 1) = sub

\* s[k:] for 0 <= k
From(s, k) == SubSeq(s, k + 1, Len(s))

RECURSIVE LStrip(_)
\* str.lstrip()
LStrip(s) == IF s # << >> /\ Head(s) \in PyWhitespace THEN LStrip(Tail(s)) ELSE s

RECURSIVE RStrip(_)
\* str.rstrip()
RStrip(s) ==
    IF s # << >> /\ s[Len(s)] \in PyWhitespace
    THEN RStrip(SubSeq(s, 1, Len(s) - 1)) ELSE s

\* str.strip()
Strip(s) == RStrip(LStrip(s))

RECURSIVE RemoveChars(_, _)
\* re.sub(r"[cls]", "", s), and s.replace(c, '') for cls = {c}
RemoveChars(s, cls) ==
    IF s = << >> THEN << >>
    ELSE IF Head(s) \in cls THEN RemoveChars(Tail(s), cls)
    ELSE << Head(s) >> \o RemoveChars(Tail(s), cls)

\* s.replace(c, '') for a one-character c
RemoveChar(s, c) == RemoveChars(s, { c })

RECURSIVE KeepChars(_, _)
\* re.sub(r"[^cls]", "", s)
KeepChars(s, cls) ==
    IF s = << >> THEN << >>
    ELSE IF Head(s) \in cls THEN << Head(s) >> \o KeepChars(Tail(s), cls)
    ELSE KeepChars(Tail(s), cls)

RECURSIVE SplitFrom(_, _, _)
SplitFrom(s, seps, part) ==
    IF s = << >> THEN << part >>
    ELSE IF Head(s) \in seps THEN << part >> \o SplitFrom(Tail(s), seps, << >>)
    ELSE SplitFrom(Tail(s), seps, Append(part, Head(s)))

\* re.split(r"[seps]", s), and s.split(c) for seps = {c}
Split(s, seps) == SplitFrom(s, seps, << >>)

RECURSIVE Concat(_)
\* "".join(strs)
Concat(strs) == IF strs = << >> THEN << >> ELSE Head(strs) \o Concat(Tail(strs))

RECURSIVE Join(_, _)
\* sep.join(strs)
Join(sep, strs) ==
    IF strs = << >> THEN << >>
    ELSE IF Len(strs) = 1 THEN strs[1]
    ELSE strs[1] \o sep \o Join(sep, Tail(strs))

\* A pattern that ends in "$" and is tried by re.match: the text is matched
\* whole, or up to the line break that is its last character.
UpToDollar(s) ==
    { s } \cup (IF s # << >> /\ s[Len(s)] = 10 THEN { SubSeq(s, 1, Len(s) - 1) } ELSE { })

(***************************************************************************)
(* int(text): whitespace, an optional sign, decimal digits of any script   *)
(* with single underscores between them, whitespace.                       *)
(***************************************************************************)
\* the whitespace int() skips: str.isspace() but for U+001C .. U+001F
IntWhitespace == PyWhitespace \ (28..31)

RECURSIVE IntLStrip(_)
IntLStrip(s) == IF s # << >> /\ Head(s) \in IntWhitespace THEN IntLStrip(Tail(s)) ELSE s

RECURSIVE IntRStrip(_)
IntRStrip(s) ==
    IF s # << >> /\ s[Len(s)] \in IntWhitespace
    THEN IntRStrip(SubSeq(s, 1, Len(s) - 1)) ELSE s

\* the digits and underscores of the literal, sign and whitespace taken off
IntBody(s) ==
    LET Unsigned(t) == IF t # << >> /\ Head(t) \in { 43, 45 } THEN Tail(t) ELSE t
    IN  Unsigned(IntRStrip(IntLStrip(s)))

\* int(s) returns: it does not raise ValueError
IsIntText(s) ==
    LET Literal(b) ==
            /\ b # << >>
            /\ AllIn(b, Digits \cup { 95 })
            /\ b[1] # 95
            /\ b[Len(b)] # 95
            /\ \A k \in 1..(Len(b) - 1) : ~(b[k] = 95 /\ b[k + 1] = 95)
    IN  Literal(IntBody(s))

RECURSIVE DigitsValue(_, _)
DigitsValue(s, acc) ==
    IF s = << >> THEN acc
    ELSE IF Head(s) = 95 THEN DigitsValue(Tail(s), acc)
    ELSE DigitsValue(Tail(s), 10 * acc + DigitValue(Head(s)))

\* int(s), for a text with IsIntText(s)
ParseInt(s) ==
    LET Signed(t, v) == IF Head(t) = 45 THEN 0 - v ELSE v
    IN  Signed(IntRStrip(IntLStrip(s)), DigitsValue(IntBody(s), 0))

\* str.isdigit()
PyIsDigit(s) == s # << >> /\ AllIn(s, DigitChars)


(***************************************************************************)
(* Pipeline.__init__  (core/pipeline.py:32-80)                             *)
(***************************************************************************)
Flags == { "web", "phone", "date_time", "technical", "math", "currency",
           "units", "numbers", "symbols", "diacritics", "linguistics",
           "transliteration" }

\* The append statements of the constructor, in source order; flag "always"
\* marks an unconditional append.
RegistrationOrder ==
    << [name |-> "WebNormalizer",             flag |-> "web"],
       [name |-> "PhoneNormalizer",           flag |-> "phone"],
       [name |-> "DateTimeNormalizer",        flag |-> "date_time"],
       [name |-> "TechnicalNormalizer",       flag |-> "technical"],
       [name |-> "MathNormalizer",            flag |-> "math"],
       [name |-> "CurrencyNormalizer",        flag |-> "currency"],
       [name |-> "UnitTagger",                flag |-> "units"],
       [name |-> "UnitNormalizer",            flag |-> "units"],
       [name |-> "PowerNormalizer",           flag |-> "units"],
       [name |-> "NumberNormalizer",          flag |-> "numbers"],
       [name |-> "SpacingNormalizer",         flag |-> "always"],
       [name |-> "EmojiNormalizer",           flag |-> "always"],
       [name |-> "SymbolNormalizer",          flag |-> "symbols"],
       [name |-> "DiacriticsNormalizer",      flag |-> "diacritics"],
       [name |-> "ScriptTagger",              flag |-> "linguistics"],
       [name |-> "LinguisticsNormalizer",     flag |-> "linguistics"],
       [name |-> "TransliterationNormalizer", flag |-> "transliteration"],
       [name |-> "GrammarNormalizer",         flag |-> "always"] >>

ModuleNames == { RegistrationOrder[k].name : k \in 1..Len(RegistrationOrder) }

RegIndex(name) ==
    CHOOSE k \in 1..Len(RegistrationOrder) : RegistrationOrder[k].name = name

DateTimePriority == 95
TechnicalPriority == 90
MathPriority == 80
SpacingPriority == 0

KnownModules == { "DateTimeNormalizer", "TechnicalNormalizer", "MathNormalizer",
                  "SpacingNormalizer" }

\* Modules whose priority property is defined in files that are not in src/.
\* Those appended before SpacingNormalizer ("rigid pattern" and conversion
\* modules) and those appended after it ("low-priority linguistic & cleanup").
EarlyUnknown == { RegistrationOrder[k].name : k \in 1..10 } \ KnownModules
LateUnknown == { RegistrationOrder[k].name : k \in 12..18 }

\* The priority properties of these modules are integers (specification
\* 4.2: higher runs earlier, ties in registration order, the spacing module
\* at the lowest priority) that no file of src/ gives.  The choices are the
\* lowest priority, which is SpacingNormalizer's 0 (pipeline.py:79 speaks of
\* "Priority 0 modules" in the plural), the priority of MathNormalizer and
\* a priority above every module of src/.
EarlyChoices == { 0, 80 }
LateChoices == { 0, 100 }

UnknownPriorities ==
    { [ n \in EarlyUnknown \cup LateUnknown |->
          IF n \in EarlyUnknown THEN a ELSE b ] :
      a \in EarlyChoices, b \in LateChoices }

\* One assignment, for the runs in which the module list plays no part.
SomePriorities == CHOOSE p \in UnknownPriorities : TRUE

PriorityOf(p, name) ==
    CASE name = "DateTimeNormalizer"  -> DateTimePriority
      [] name = "TechnicalNormalizer" -> TechnicalPriority
      [] name = "MathNormalizer"      -> MathPriority
      [] name = "SpacingNormalizer"   -> SpacingPriority
      [] OTHER                        -> p[name]

RECURSIVE Registered(_, _)
\* self.modules before the sort: the modules appended for configuration c,
\* from position k of the constructor on.
Registered(c, k) ==
    IF k > Len(RegistrationOrder) THEN << >>
    ELSE LET r == RegistrationOrder[k]
         IN  IF r.flag = "always" \/ r.flag \in c
             THEN << r.name >> \o Registered(c, k + 1)
             ELSE Registered(c, k + 1)

\* Insert x after every element whose key is >= the key of x: with the
\* elements inserted in list order this is list.sort(key, reverse=True),
\* which is stable.
RECURSIVE InsertStable(_, _, _)
InsertStable(p, ms, x) ==
    IF ms = << >> THEN << x >>
    ELSE IF PriorityOf(p, Head(ms)) >= PriorityOf(p, x)
         THEN << Head(ms) >> \o InsertStable(p, Tail(ms), x)
         ELSE << x >> \o ms

\* The same with equal keys reversed (sort ascending, then reverse the list).
RECURSIVE InsertUnstable(_, _, _)
InsertUnstable(p, ms, x) ==
    IF ms = << >> THEN << x >>
    ELSE IF PriorityOf(p, Head(ms)) > PriorityOf(p, x)
         THEN << Head(ms) >> \o InsertUnstable(p, Tail(ms), x)
         ELSE << x >> \o ms

RECURSIVE SortFrom(_, _, _, _)
SortFrom(p, ms, acc, k) ==
    IF k > Len(ms) THEN acc
    ELSE SortFrom(p, ms, InsertStable(p, acc, ms[k]), k + 1)

RECURSIVE SortFromUnstable(_, _, _, _)
SortFromUnstable(p, ms, acc, k) ==
    IF k > Len(ms) THEN acc
    ELSE SortFromUnstable(p, ms, InsertUnstable(p, acc, ms[k]), k + 1)

SortModulesUnstable(p, ms) == SortFromUnstable(p, ms, << >>, 1)

\* self.modules.sort(key=lambda m: m.priority, reverse=True)
SortModules(p, ms) == SortFrom(p, ms, << >>, 1)

\* The module list of a freshly constructed Pipeline(config).
Construct(c, p) == SortModules(p, Registered(c, 1))


(***************************************************************************)
(* Token  (core/types.py is not in src/; the fields are those of the       *)
(* specification's data model and of the constructor calls in              *)
(* technical.py:83-85: Token(text, original_text, type, tags=...,          *)
(* whitespace_after=...))                                                  *)
(***************************************************************************)
Token(tx, og, ty, tg, w) ==
    [text |-> tx, orig |-> og, type |-> ty, tags |-> tg, ws |-> w, conv |-> FALSE]

\* an absent neighbour (None)
None == [text |-> << >>, orig |-> << >>, type |-> "NONE", tags |-> {}, ws |-> << >>,
         conv |-> FALSE]

\* A passive pipeline state for the runs that exercise one module pass.
PassInit(toks) ==
    /\ config = {}
    /\ prio = SomePriorities
    /\ modules = Construct(config, prio)
    /\ calls = 1
    /\ cur = << >>
    /\ ran = << >>
    /\ text = << >>
    /\ tokens = toks
    /\ input = toks
    /\ i = 0
    /\ new_tokens = << >>
    /\ tech_indices = {}
    /\ raised = FALSE

(***************************************************************************)
(* Tokenizer  (core/tokenizer.py is not in src/): the lexing priority of   *)
(* specification 4.1 on the shapes that tests/unit use: URL, EMAIL, PHONE, *)
(* DATE, TIME, numeric literal, TECHNICAL, then WORD (a maximal letter     *)
(* run) and SYMBOL (one other character).  The whitespace after a token is *)
(* its whitespace_after, and text + whitespace_after over the sequence is  *)
(* the text itself (specification 3 and 4.1).                              *)
(***************************************************************************)
RECURSIVE RunLength(_, _)
\* the length of the longest prefix of s made of characters of cls
RunLength(s, cls) ==
    IF s # << >> /\ Head(s) \in cls THEN 1 + RunLength(Tail(s), cls) ELSE 0

RECURSIVE NonSpaceLength(_)
\* the length of the longest prefix of s without whitespace
NonSpaceLength(s) ==
    IF s # << >> /\ Head(s) \notin PyWhitespace THEN 1 + NonSpaceLength(Tail(s)) ELSE 0

\* "https://google.com/path?query=1", "www.rudaw.net": up to the next whitespace
UrlLength(s) ==
    IF \/ StartsWith(s, <<104, 116, 116, 112, 58, 47, 47>> (* http:// *))
       \/ StartsWith(s, <<104, 116, 116, 112, 115, 58, 47, 47>> (* https:// *))
       \/ StartsWith(s, <<119, 119, 119, 46>> (* www. *))
    THEN NonSpaceLength(s) ELSE 0

\* "test@gmail.com": name, "@", and a domain with a dot inside
EmailLength(s) ==
    LET Address(l, d) ==
            IF /\ l > 0
               /\ Len(s) > l
               /\ s[l + 1] = 64
               /\ \E k \in 2..(d - 1) : s[l + 1 + k] = 46
            THEN l + 1 + d ELSE 0
        Domain(l, run) ==
            Address(l, IF run > 0 /\ s[l + 1 + run] = 46 THEN run - 1 ELSE run)
        Name(l) == Domain(l, RunLength(From(s, l + 1), WordChars \cup { 45, 46 }))
    IN  Name(RunLength(s, WordChars \cup { 43, 45, 46 }))

\* "+9647701234567", "07501234567"
PhoneLength(s) ==
    IF s[1] = 43
    THEN LET Plus(d) == IF d >= 8 THEN 1 + d ELSE 0 IN Plus(RunLength(Tail(s), Digits))
    ELSE IF StartsWith(s, <<48, 55>> (* 07 *)) /\ RunLength(s, Digits) = 11 THEN 11 ELSE 0

DateSeparators == { 45, 46, 47 }

\* digit / separator / digit / separator / digit
DateLength(s) ==
    LET Third(d1, d2, d3) ==
            IF /\ d1 > 0 /\ Len(s) > d1 /\ s[d1 + 1] \in DateSeparators
               /\ d2 > 0 /\ Len(s) > d1 + d2 + 1 /\ s[d1 + d2 + 2] \in DateSeparators
               /\ d3 > 0
            THEN d1 + d2 + d3 + 2 ELSE 0
        Second(d1, d2) == Third(d1, d2, RunLength(From(s, d1 + d2 + 2), Digits))
        First(d1) == Second(d1, RunLength(From(s, d1 + 1), Digits))
    IN  First(RunLength(s, Digits))

\* digit : digit, and an am/pm marker written onto it
TimeLength(s) ==
    LET Marked(d1, d2, n) ==
            IF d1 > 0 /\ Len(s) > d1 /\ s[d1 + 1] = 58 /\ d2 > 0
            THEN IF Len(s) >= n + 2 /\ Upper(SubSeq(s, n + 1, n + 2)) \in { <<65, 77>> (* AM *), <<80, 77>> (* PM *) }
                 THEN n + 2 ELSE n
            ELSE 0
        Minute(d1, d2) == Marked(d1, d2, d1 + d2 + 1)
        Hour(d1) == Minute(d1, RunLength(From(s, d1 + 1), Digits))
    IN  Hour(RunLength(s, Digits))

\* integer, decimal and scientific notation ("5e-10"); a sign is a token of
\* its own ("-5" is two tokens)
NumberLength(s) ==
    LET Scientific(d1, m, sign, e) ==
            IF d1 > 0 /\ Len(s) > m /\ s[m + 1] \in { 69, 101 } /\ e > 0
            THEN m + 1 + sign + e ELSE m
        Exponent(d1, m, sign) ==
            Scientific(d1, m, sign, RunLength(From(s, m + 1 + sign), Digits))
        Mantissa(d1, m) ==
            Exponent(d1, m, IF Len(s) > m + 1 /\ s[m + 2] \in { 43, 45 } THEN 1 ELSE 0)
        Fraction(d1, f) ==
            Mantissa(d1, IF Len(s) > d1 /\ s[d1 + 1] = 46 /\ f > 0 THEN d1 + 1 + f ELSE d1)
        Whole(d1) == Fraction(d1, RunLength(From(s, d1 + 1), Digits))
    IN  Whole(RunLength(s, Digits))

\* "#tag", "@mention"
TechnicalLength(s) ==
    LET Marked(w) == IF s[1] \in { 35, 64 } /\ w > 0 THEN 1 + w ELSE 0
    IN  Marked(RunLength(Tail(s), WordChars))

\* the first token of a text that starts with none of the whitespace
FirstToken(s) ==
    LET Priority(url, email, phone, date, time, number, technical) ==
            IF url > 0 THEN << url, "URL" >>
            ELSE IF email > 0 THEN << email, "EMAIL" >>
            ELSE IF phone > 0 THEN << phone, "PHONE" >>
            ELSE IF date > 0 THEN << date, "DATE" >>
            ELSE IF time > 0 THEN << time, "TIME" >>
            ELSE IF number > 0 THEN << number, "NUMBER" >>
            ELSE IF technical > 0 THEN << technical, "TECHNICAL" >>
            ELSE IF s[1] \in Alpha THEN << RunLength(s, Alpha), "WORD" >>
            ELSE << 1, "SYMBOL" >>
    IN  Priority(UrlLength(s), EmailLength(s), PhoneLength(s), DateLength(s),
                 TimeLength(s), NumberLength(s), TechnicalLength(s))

RECURSIVE TokenizeFrom(_)
TokenizeFrom(s) ==
    IF s = << >> THEN << >>
    ELSE LET Spaced(tx, type, rest, w) ==
                 << Token(tx, tx, type, {}, SubSeq(rest, 1, w)) >> \o TokenizeFrom(From(rest, w))
             Cut(tx, type, rest) == Spaced(tx, type, rest, RunLength(rest, PyWhitespace))
             Taken(first) == Cut(SubSeq(s, 1, first[1]), first[2], From(s, first[1]))
         IN  Taken(FirstToken(s))

\* Tokenizer.tokenize.  A token holds only the whitespace after it, and the
\* text of a WORD or SYMBOL holds none, so the whitespace before the first
\* lexeme is the whitespace_after of a leading token without text.
Tokenize(s) ==
    LET Leading(w) ==
            (IF w = 0 THEN << >>
             ELSE << Token(<< >>, << >>, "UNKNOWN", {}, SubSeq(s, 1, w)) >>)
            \o TokenizeFrom(From(s, w))
    IN  Leading(RunLength(s, PyWhitespace))

\* The texts of the tokens without their whitespace.
DetokenizeTextOnly(toks) == Concat([j \in 1..Len(toks) |-> toks[j].text])

\* Tokenizer.detokenize: text + whitespace_after of every token, in order
Detokenize(toks) == Concat([j \in 1..Len(toks) |-> toks[j].text \o toks[j].ws])

(***************************************************************************)
(* Pipeline.normalize, final cleanup  (core/pipeline.py:102-115)           *)
(***************************************************************************)
\* re.sub(cls+, rep, s): every maximal run of characters of cls becomes rep
RECURSIVE SubRuns(_, _, _)
SubRuns(s, cls, rep) ==
    IF s = << >> THEN << >>
    ELSE IF Head(s) \in cls
         THEN IF Len(s) > 1 /\ s[2] \in cls
              THEN SubRuns(Tail(s), cls, rep)
              ELSE rep \o SubRuns(Tail(s), cls, rep)
         ELSE << Head(s) >> \o SubRuns(Tail(s), cls, rep)

\* re.sub(pat, rep, s) for a two-character literal pat: leftmost matches,
\* not overlapping, the scan resuming after each match
RECURSIVE SubPair(_, _, _)
SubPair(s, pat, rep) ==
    IF Len(s) < 2 THEN s
    ELSE IF SubSeq(s, 1, 2) = pat
         THEN rep \o SubPair(SubSeq(s, 3, Len(s)), pat, rep)
         ELSE << Head(s) >> \o SubPair(Tail(s), pat, rep)

\* A. re.sub(r'[ \t]+', ' ', final_text)
CollapseSpaces(s) == SubRuns(s, { 32, 9 }, << 32 >>)

\* B. re.sub(r'[\r\n]+', '\n', final_text)
CollapseNewlines(s) == SubRuns(s, { 13, 10 }, << 10 >>)

\* C. re.sub(r' \n', '\n', ...) then re.sub(r'\n ', '\n', ...)
StripAroundNewlines(s) == SubPair(SubPair(s, << 32, 10 >>, << 10 >>), << 10, 32 >>, << 10 >>)

\* Steps A to D without the final strip.
CleanupNoStrip(s) == StripAroundNewlines(CollapseNewlines(CollapseSpaces(s)))

\* Steps A to D of normalize's final cleanup.
Cleanup(s) == Strip(StripAroundNewlines(CollapseNewlines(CollapseSpaces(s))))


(***************************************************************************)
(* SpacingNormalizer.process  (modules/spacing.py:21-44)                   *)
(***************************************************************************)
\* A variant without the exception for opening brackets and quotes.
OpeningMarksNone == { }

\* ["(", "[", "{", U+201D, U+201C, '"']
OpeningMarks == { <<40>>, <<91>> (* [ *), <<123>> (* { *), << 8221 >>, << 8220 >>, <<34>> (* " *) }

\* One iteration of "for i, token in enumerate(tokens)", at 0-based index k.
SpacingIteration(toks, k) ==
    LET tok == toks[k + 1]
        a == IF tok.conv /\ tok.ws = << >>
             THEN [toks EXCEPT ![k + 1].ws = <<32>>] ELSE toks
    IN  IF tok.conv /\ k > 0 /\ a[k].ws = << >> /\ a[k].text \notin OpeningMarks
        THEN [a EXCEPT ![k].ws = <<32>>]
        ELSE a

RECURSIVE SpacingFrom(_, _)
SpacingFrom(toks, k) ==
    IF k >= Len(toks) THEN toks ELSE SpacingFrom(SpacingIteration(toks, k), k + 1)

\* process(tokens): the whole loop, and "return tokens"
SpacingProcess(toks) == SpacingFrom(toks, 0)

SpacingStep ==
    /\ pc = "spacing"
    /\ i < Len(tokens)
    /\ tokens' = SpacingIteration(tokens, i)
    /\ i' = i + 1
    /\ UNCHANGED << config, prio, modules, calls, cur, ran, pc, text, input,
                    new_tokens, tech_indices, raised >>

SpacingReturn ==
    /\ pc = "spacing"
    /\ i >= Len(tokens)
    /\ pc' = "spaced"
    /\ UNCHANGED << config, prio, modules, calls, cur, ran, text, tokens, input,
                    i, new_tokens, tech_indices, raised >>

SpacingTexts == { A("("), A("\""), A("x") }

SpacingTokens ==
    { [text |-> tx, orig |-> tx, type |-> IF tx = A("x") THEN "WORD" ELSE "SYMBOL",
       tags |-> {}, ws |-> w, conv |-> c] :
      tx \in SpacingTexts, w \in { << >>, A(" ") }, c \in BOOLEAN }

SpacingInit ==
    /\ pc = "spacing"
    /\ \E toks \in SeqsUpTo(SpacingTokens, MaxSpacingTok) : PassInit(toks)

SpacingNext == SpacingStep \/ SpacingReturn

SpacingSpec == SpacingInit /\ [][SpacingNext]_vars

BracketOrQuote == { A("("), A("["), A("{"), << 8221 >>, << 8220 >>, A("\"") }

\* The original statement of C3: after the pass every is_converted token has
\* a non-empty whitespace_after, and so has the token before it, unless that
\* token's text is an opening bracket or quote: then its empty
\* whitespace_after is left empty.
C3_Original ==
    pc = "spaced" =>
        \A k \in 1..Len(tokens) :
            tokens[k].conv =>
                /\ tokens[k].ws # << >>
                /\ k > 1 =>
                     IF tokens[k - 1].text \in BracketOrQuote
                     THEN input[k - 1].ws = << >> => tokens[k - 1].ws = << >>
                     ELSE tokens[k - 1].ws # << >>

\* C3 (amended): after the pass every is_converted token has a non-empty
\* whitespace_after, and so has the token before it, unless that token's
\* text is an opening bracket or quote: then its empty whitespace_after is
\* left empty, provided the bracket or quote is not itself is_converted.
C3_SpacingAroundConverted ==
    pc = "spaced" =>
        \A k \in 1..Len(tokens) :
            tokens[k].conv =>
                /\ tokens[k].ws # << >>
                /\ k > 1 =>
                     IF tokens[k - 1].text \in BracketOrQuote
                     THEN (input[k - 1].ws = << >> /\ ~tokens[k - 1].conv)
                              => tokens[k - 1].ws = << >>
                     ELSE tokens[k - 1].ws # << >>

\* After the pass: an unconverted "(" without whitespace in front of a
\* converted token kept its empty whitespace_after, and the converted tokens
\* behind it got their trailing space.
C3_Witness ==
    /\ pc = "spaced"
    /\ Len(tokens) = 3
    /\ \A k \in 1..3 : input[k].ws = << >>
    /\ input[1].text = A("(") /\ ~input[1].conv /\ tokens[1].ws = << >>
    /\ input[2].text = A("x") /\ input[2].conv /\ tokens[2].ws = A(" ")
    /\ input[3].text = A("x") /\ input[3].conv /\ tokens[3].ws = A(" ")

(***************************************************************************)
(* TechnicalNormalizer  (modules/technical.py)                             *)
(***************************************************************************)
MATH_TERMS == { <<108, 110>> (* ln *), <<108, 111, 103>> (* log *), <<115, 105, 110>> (* sin *), <<99, 111, 115>> (* cos *), <<116, 97, 110>> (* tan *), <<108, 105, 109>> (* lim *), <<109, 111, 100>> (* mod *), <<101, 120, 112>> (* exp *) }

CURRENCY_CODES == { <<73, 81, 68>> (* IQD *), <<85, 83, 68>> (* USD *), <<69, 85, 82>> (* EUR *), <<71, 66, 80>> (* GBP *), <<74, 80, 89>> (* JPY *), <<65, 69, 68>> (* AED *), <<84, 82, 89>> (* TRY *), <<73, 82, 82>> (* IRR *), <<75, 87, 68>> (* KWD *),
                    <<83, 65, 82>> (* SAR *), <<65, 85, 68>> (* AUD *), <<67, 65, 68>> (* CAD *) }

UNIT_CODES == { <<109, 103>> (* mg *), <<109, 108>> (* ml *), <<103, 98>> (* gb *), <<109, 98>> (* mb *), <<107, 98>> (* kb *), <<116, 98>> (* tb *), <<107, 109>> (* km *), <<107, 103>> (* kg *), <<99, 109>> (* cm *), <<109, 109>> (* mm *),
                <<102, 116>> (* ft *), <<121, 100>> (* yd *), <<109, 105>> (* mi *), <<105, 110>> (* in *), <<111, 122>> (* oz *), <<108, 98>> (* lb *), <<103, 97, 108>> (* gal *), <<109, 112, 104>> (* mph *), <<109, 115>> (* ms *),
                <<107, 119, 104>> (* kwh *), <<109, 119>> (* mw *), <<104, 112>> (* hp *), <<107, 112, 97>> (* kpa *), <<112, 115, 105>> (* psi *), <<107, 110>> (* kn *), <<99, 97, 108>> (* cal *), <<107, 99, 97, 108>> (* kcal *) }

\* ALPHANUMERIC_RE.fullmatch: (?=.*\d)(?=\w*[^\W\d_])[\w\-]+\b
\* a digit (\d) somewhere; a character of [^\W\d_] reached from the start
\* through word characters only; every character a word character or "-";
\* the last one a word character (the \b at the end of the string).
AlphanumericFullmatch(s) ==
    /\ s # << >>
    /\ AnyIn(s, Digits)
    /\ \E k \in 1..Len(s) :
          Ch(s, k) \in UnicodeLetters /\ AllIn(SubSeq(s, 1, k), WordChars)
    /\ AllIn(s, WordChars \cup { 45 })
    /\ Ch(s, Len(s)) \in WordChars

\* HEX_RE.fullmatch: ^[a-fA-F0-9]+$
HexFullmatch(s) == s # << >> /\ AllIn(s, AsciiDigits \cup (97..102) \cup (65..70))

\* RANGE_RE.fullmatch: ^\d+-\d+$
RangeFullmatch(s) ==
    \E k \in 2..(Len(s) - 1) :
        /\ Ch(s, k) = 45
        /\ AllIn(SubSeq(s, 1, k - 1), Digits)
        /\ AllIn(SubSeq(s, k + 1, Len(s)), Digits)

\* the one-character alternative of CODE_SPLITTER_RE, and SYMBOL_PART_RE
\* - @ # _ + \ /
CodeSymbols == { 45, 64, 35, 95, 43, 92, 47 }

\* [a-zA-Z0-9\u0080-\uFFFF]
CodeAlnum == Letters \cup AsciiDigits \cup (128..65535)

RECURSIVE AlnumRun(_)
\* the longest prefix of s in [a-zA-Z0-9\u0080-\uFFFF]
AlnumRun(s) ==
    IF s # << >> /\ Head(s) \in CodeAlnum
    THEN << Head(s) >> \o AlnumRun(Tail(s)) ELSE << >>

RECURSIVE CodeSplit(_)
\* [m.group(0) for m in CODE_SPLITTER_RE.finditer(s)]
CodeSplit(s) ==
    IF s = << >> THEN << >>
    ELSE IF Head(s) \in CodeAlnum
         THEN LET r == AlnumRun(s)
              IN  << r >> \o CodeSplit(SubSeq(s, Len(r) + 1, Len(s)))
         ELSE IF Head(s) \in CodeSymbols
              THEN << << Head(s) >> >> \o CodeSplit(Tail(s))
              ELSE CodeSplit(Tail(s))

\* SYMBOL_PART_RE.match: ^[\-@\#_\+\\\/]$
SymbolPartMatch(part) == \E t \in UpToDollar(part) : Len(t) = 1 /\ t[1] \in CodeSymbols

\* WebNormalizer._spell_out (modules/web.py is not in src/): the spoken
\* spelling of s, kept as an opaque, injective image of s.
SpellOut(s) == <<115, 112, 101, 108, 108, 60>> (* spell< *) \o s \o <<62>> (* > *)

\* The spoken words for "#", "@" and "-" (technical.py:83, 90, 122).
HashtagWord == <<1726, 1575, 1588, 1578, 1575, 1711>> (* ھاشتاگ *)
AtWord == <<1574, 1749, 1578>> (* ئەت *)
DashWord == <<1583, 1575, 1588>> (* داش *)

\* TechnicalNormalizer._is_potential_code
IsPotentialCode(tok) ==
    IF tok.type = "WORD"
    THEN /\ Lower(tok.text) \notin MATH_TERMS
         /\ Upper(tok.text) \notin CURRENCY_CODES
         /\ Lower(tok.text) \notin UNIT_CODES
         /\ \/ AlphanumericFullmatch(tok.text)
            \/ (AnyIn(tok.text, DigitChars) /\ AnyIn(tok.text, Alpha))
            \/ HexFullmatch(tok.text)
    ELSE tok.type = "NUMBER"

\* The first loop of process: the 0-based indices put into tech_indices.
TechIndices(toks) ==
    UNION { { k - 1, k, k + 1 } :
            k \in { k \in 1..(Len(toks) - 2) :
                      /\ toks[k + 1].text = <<45>> (* - *)
                      /\ toks[k].ws = << >>
                      /\ toks[k + 1].ws = << >>
                      /\ IsPotentialCode(toks[k])
                      /\ IsPotentialCode(toks[k + 2]) } }

\* tokens[j] of Python for a list of n tokens: a negative j counts from the
\* end; 0 stands for IndexError.
PyIndex(j, n) == IF 0 <= j /\ j < n THEN j + 1
                 ELSE IF j < 0 /\ -j <= n THEN n + j + 1 ELSE 0


MaxTechTok == 4

\* The spelling written to original_text as well.
SpelledInPlaceResetsOriginal(tok) ==
    [tok EXCEPT !.text = SpellOut(tok.text), !.orig = SpellOut(tok.text),
                !.type = "WORD", !.tags = tok.tags \cup { "IS_SPELLED_OUT" }]

\* token.text = self.helper._spell_out(token.text); type WORD; tag added
SpelledInPlace(tok) ==
    [tok EXCEPT !.text = SpellOut(tok.text), !.type = "WORD",
                !.tags = tok.tags \cup { "IS_SPELLED_OUT" }]

\* the two tokens that replace a "#..." or "@..." TECHNICAL token
PrefixExpansion(tok, word) ==
    LET core == SubSeq(tok.text, 2, Len(tok.text))
    IN  << Token(word, word, "WORD", {}, <<32>>),
           Token(SpellOut(core), core, "WORD", { "IS_SPELLED_OUT" }, tok.ws) >>

\* the tokens that replace a WORD token holding "-" or "_"
PartsExpansion(tok) ==
    LET parts == CodeSplit(tok.text)
    IN  [ j \in 1..Len(parts) |->
            IF SymbolPartMatch(parts[j])
            THEN Token(SpellOut(parts[j]), parts[j], "WORD", {}, <<32>>)
            ELSE Token(SpellOut(parts[j]), parts[j], "WORD", { "IS_SPELLED_OUT" },
                       IF j = Len(parts) THEN tok.ws ELSE <<32>>) ]

\* tokens[i + 2] is read at technical.py:112 (the token is a NUMBER of
\* tech_indices and the next token's text is "-")
ReadsPlusTwo(toks, k) ==
    /\ toks[k + 1].text # <<45>> (* - *)
    /\ toks[k + 1].type = "NUMBER"
    /\ k < Len(toks) - 1
    /\ toks[k + 2].text = <<45>> (* - *)

\* tokens[i - 2] is read at technical.py:114
ReadsMinusTwo(toks, k) ==
    /\ toks[k + 1].text # <<45>> (* - *)
    /\ toks[k + 1].type = "NUMBER"
    /\ k > 0
    /\ toks[k].text = <<45>> (* - *)

\* is_pure_numeric_range of technical.py:104-115, when no read raises
IsPureNumericRange(toks, k) ==
    LET n == Len(toks)
        tok == toks[k + 1]
    IN  IF tok.text = <<45>> (* - *)
        THEN /\ k > 0
             /\ k < n - 1
             /\ toks[k].type = "NUMBER"
             /\ toks[k + 2].type = "NUMBER"
        ELSE \/ ReadsPlusTwo(toks, k) /\ toks[PyIndex(k + 2, n)].type = "NUMBER"
             \/ ReadsMinusTwo(toks, k) /\ toks[PyIndex(k - 2, n)].type = "NUMBER"

\* One iteration of the second loop of process at 0-based index k: the token
\* list after the in-place changes, new_tokens, and whether it raised.
TechIteration(toks, out, ti, k) ==
    LET n == Len(toks)
        tok == toks[k + 1]
        kept == [toks |-> toks, out |-> Append(out, tok), raise |-> FALSE]
        changed(t2) == [toks |-> [toks EXCEPT ![k + 1] = t2],
                        out |-> Append(out, t2), raise |-> FALSE]
        expanded(ts) == [toks |-> toks, out |-> out \o ts, raise |-> FALSE]
    IN  IF /\ tok.type = "WORD"
           /\ \/ Lower(tok.text) \in MATH_TERMS
              \/ Upper(tok.text) \in CURRENCY_CODES
              \/ Lower(tok.text) \in UNIT_CODES
        THEN kept
        ELSE IF tok.type = "WORD" /\ RangeFullmatch(tok.text)
        THEN kept
        ELSE IF tok.type = "TECHNICAL"
        THEN IF StartsWith(tok.text, <<35>> (* # *)) THEN expanded(PrefixExpansion(tok, HashtagWord))
             ELSE IF StartsWith(tok.text, <<64>> (* @ *)) THEN expanded(PrefixExpansion(tok, AtWord))
             ELSE changed(SpelledInPlace(tok))
        ELSE IF k \in ti
        THEN IF ReadsPlusTwo(toks, k) /\ PyIndex(k + 2, n) = 0
             THEN [toks |-> toks, out |-> out, raise |-> TRUE]
             ELSE IF IsPureNumericRange(toks, k)
             THEN kept
             ELSE IF tok.text = <<45>> (* - *)
             THEN changed([tok EXCEPT !.text = DashWord, !.type = "WORD", !.ws = <<32>>])
             ELSE changed(SpelledInPlace(tok))
        ELSE IF tok.type = "WORD" /\ (Has(tok.text, <<45>> (* - *)) \/ Has(tok.text, <<95>> (* _ *)))
        THEN expanded(PartsExpansion(tok))
        ELSE IF tok.type = "WORD" /\ AlphanumericFullmatch(tok.text)
        THEN changed(SpelledInPlace(tok))
        ELSE kept

RECURSIVE TechFrom(_, _, _, _)
TechFrom(toks, out, ti, k) ==
    IF k >= Len(toks) THEN [out |-> out, raise |-> FALSE]
    ELSE LET Rest(r) ==
                 IF r.raise THEN [out |-> << >>, raise |-> TRUE]
                 ELSE TechFrom(r.toks, r.out, ti, k + 1)
         IN  Rest(TechIteration(toks, out, ti, k))

\* process(tokens): both loops; new_tokens, or raise when the pass raised
TechProcess(toks) == TechFrom(toks, << >>, TechIndices(toks), 0)

\* technical.py:44-58, the loop that fills tech_indices
TechScan ==
    /\ pc = "tech_scan"
    /\ tech_indices' = TechIndices(tokens)
    /\ pc' = "tech_loop"
    /\ UNCHANGED << config, prio, modules, calls, cur, ran, text, tokens, input,
                    i, new_tokens, raised >>

\* technical.py:60-155, one iteration of the second loop
TechStep ==
    /\ pc = "tech_loop"
    /\ i < Len(tokens)
    /\ \E r \in { TechIteration(tokens, new_tokens, tech_indices, i) } :
           IF r.raise
           THEN /\ raised' = TRUE
                /\ pc' = "tech_raised"
                /\ UNCHANGED << tokens, new_tokens, i >>
           ELSE /\ tokens' = r.toks
                /\ new_tokens' = r.out
                /\ i' = i + 1
                /\ UNCHANGED << raised, pc >>
    /\ UNCHANGED << config, prio, modules, calls, cur, ran, text, input,
                    tech_indices >>

\* return new_tokens
TechReturn ==
    /\ pc = "tech_loop"
    /\ i >= Len(tokens)
    /\ pc' = "tech_done"
    /\ UNCHANGED << config, prio, modules, calls, cur, ran, text, tokens, input,
                    i, new_tokens, tech_indices, raised >>

TechTokens ==
    { Token(tx, tx, "NUMBER", {}, << >>) : tx \in { A("3"), A("5") } }
    \cup { Token(A("-"), A("-"), "SYMBOL", {}, w) : w \in { << >>, A(" ") } }
    \cup { Token(tx, tx, "WORD", {}, << >>) : tx \in { A("A1"), A("kg") } }
    \cup { Token(A("x-y"), A("x-y"), "WORD", {}, A(" ")) }
    \cup { Token(A("#t"), A("#t"), "TECHNICAL", {}, << >>) }

TechInit ==
    /\ pc = "tech_scan"
    /\ \E toks \in SeqsUpTo(TechTokens, MaxTechTok) : PassInit(toks)

TechNext == TechScan \/ TechStep \/ TechReturn

TechSpec == TechInit /\ [][TechNext]_vars

\* C7: no module pass raises to the caller: for every token list, also one
\* where a "-" bound tightly between code-like tokens has a NUMBER neighbour
\* at the first or last positions of the list, process returns a token list.
C7_NoRaise == raised = FALSE

(***************************************************************************)
(* int_to_kurdish  (utils/numbers.py is not in src/): the cardinal of      *)
(* specification 4.3, base-1000 grouping, parts joined by " w " (U+0648).  *)
(***************************************************************************)
KurdishOnes == << <<1740, 1749, 1705>> (* یەک *), <<1583, 1608, 1608>> (* دوو *), <<1587, 1742>> (* سێ *), <<1670, 1608, 1575, 1585>> (* چوار *), <<1662, 1742, 1606, 1580>> (* پێنج *), <<1588, 1749, 1588>> (* شەش *), <<1581, 1749, 1608, 1578>> (* حەوت *), <<1607, 1749, 1588, 1578>> (* هەشت *), <<1606, 1734>> (* نۆ *),
                  <<1583, 1749>> (* دە *), <<1740, 1575, 1586, 1583, 1749>> (* یازدە *), <<1583, 1608, 1575, 1586, 1583, 1749>> (* دوازدە *), <<1587, 1742, 1586, 1583, 1749>> (* سێزدە *), <<1670, 1608, 1575, 1585, 1583, 1749>> (* چواردە *), <<1662, 1575, 1586, 1583, 1749>> (* پازدە *), <<1588, 1575, 1586, 1583, 1749>> (* شازدە *),
                  <<1581, 1749, 1700, 1583, 1749>> (* حەڤدە *), <<1607, 1749, 1688, 1583, 1749>> (* هەژدە *), <<1606, 1734, 1586, 1583, 1749>> (* نۆزدە *) >>

KurdishTens == << <<1576, 1740, 1587, 1578>> (* بیست *), <<1587, 1740>> (* سی *), <<1670, 1604>> (* چل *), <<1662, 1749, 1606, 1580, 1575>> (* پەنجا *), <<1588, 1749, 1587, 1578>> (* شەست *), <<1581, 1749, 1601, 1578, 1575>> (* حەفتا *), <<1607, 1749, 1588, 1578, 1575>> (* هەشتا *), <<1606, 1749, 1608, 1749, 1583>> (* نەوەد *) >>

JoinAnd(a, b) == IF a = << >> THEN b ELSE IF b = << >> THEN a ELSE a \o <<32, 1608, 32>> \o b

Below100(n) ==
    IF n = 0 THEN << >>
    ELSE IF n < 20 THEN KurdishOnes[n]
    ELSE JoinAnd(KurdishTens[(n \div 10) - 1],
                 IF n % 10 = 0 THEN << >> ELSE KurdishOnes[n % 10])

Below1000(n) ==
    JoinAnd(IF n \div 100 = 0 THEN << >>
            ELSE IF n \div 100 = 1 THEN <<1587, 1749, 1583>> (* سەد *)
            ELSE KurdishOnes[n \div 100] \o <<32, 1587, 1749, 1583>>,
            Below100(n % 100))

IntToKurdish(n) ==
    LET m == IF n < 0 THEN -n ELSE n
        w == IF m = 0 THEN <<1587, 1601, 1585>> (* سفر *)
             ELSE JoinAnd(IF m \div 1000 = 0 THEN << >>
                          ELSE IF m \div 1000 = 1 THEN <<1607, 1749, 1586, 1575, 1585>> (* هەزار *)
                          ELSE Below1000((m \div 1000) % 1000) \o <<32, 1607, 1749, 1586, 1575, 1585>>,
                          Below1000(m % 1000))
    IN  IF n < 0 THEN <<1587, 1575, 1604, 1576, 32>> \o w ELSE w

(***************************************************************************)
(* MathNormalizer  (modules/math.py)                                       *)
(***************************************************************************)
MATH_SYMBOLS ==
    { <<<<43>> (* + *), <<1705, 1734>> (* کۆ *)>>, <<<<42>>, <<1705, 1749, 1685, 1749, 1578, 1740>> (* کەڕەتی *)>>,
      <<<< 215 >>, <<1705, 1749, 1685, 1749, 1578, 1740>> (* کەڕەتی *)>>, <<<<47>> (* / *), <<1583, 1575, 1576, 1749, 1588>> (* دابەش *)>>,
      <<<< 247 >>, <<1583, 1575, 1576, 1749, 1588>> (* دابەش *)>>, <<<< 177 >>, <<1705, 1749, 1605, 32, 1705, 1734>> (* کەم کۆ *)>>,
      <<<< 8730 >>, <<1685, 1749, 1711, 1740, 32, 1583, 1608, 1608, 1580, 1575, 1740>> (* ڕەگی دووجای *)>>, <<<<45>> (* - *), <<1705, 1749, 1605>> (* کەم *)>>,
      <<<< 8722 >>, <<1705, 1749, 1605>> (* کەم *)>>, <<<<61>> (* = *), <<1740, 1749, 1705, 1587, 1575, 1606, 1749, 32, 1576, 1749>> (* یەکسانە بە *)>>,
      <<<<94>> (* ^ *), <<1578, 1608, 1575, 1606>> (* توان *)>>, <<<<37>> (* % *), <<1604, 1749, 32, 1587, 1749, 1583, 1575>> (* لە سەدا *)>>,
      <<<< 8776 >>, <<1606, 1586, 1740, 1705, 1749, 1740>> (* نزیکەی *)>> }

MATH_FUNCTIONS ==
    { <<<<108, 110>> (* ln *), <<1604, 1734, 1711, 1575, 1585, 1740, 1578, 1605, 1740, 32, 1587, 1585, 1608, 1588, 1578, 1740>> (* لۆگاریتمی سروشتی *)>>, <<<<108, 111, 103>> (* log *), <<1604, 1734, 1711, 1575, 1585, 1740, 1578, 1605, 1740>> (* لۆگاریتمی *)>>,
      <<<<115, 105, 110>> (* sin *), <<1587, 1575, 1740, 1606, 1740>> (* ساینی *)>>, <<<<99, 111, 115>> (* cos *), <<1705, 1734, 1587, 1575, 1740, 1606, 1740>> (* کۆساینی *)>>,
      <<<<116, 97, 110>> (* tan *), <<1578, 1575, 1606, 1580, 1742, 1606, 1578, 1740>> (* تانجێنتی *)>>, <<<<108, 105, 109>> (* lim *), <<1604, 1740, 1605, 1742, 1578, 1740>> (* لیمێتی *)>>,
      <<<<109, 111, 100>> (* mod *), <<1605, 1734, 1583>> (* مۆد *)>>, <<<<101, 120, 112>> (* exp *), <<1574, 1742, 1705, 1587, 1662, 1734, 1606, 1742, 1606, 1588, 1740, 1575, 1717>> (* ئێکسپۆنێنشیاڵ *)>>,
      <<<< 956 >>, <<1605, 1740, 1608>> (* میو *)>>, <<<< 960 >>, <<1662, 1575, 1740>> (* پای *)>> }

STRICT_UNITS ==
    { <<109>> (* m *), <<103>> (* g *), <<108>> (* l *), <<115>> (* s *), <<104>> (* h *), <<107, 103>> (* kg *), <<107, 109>> (* km *), <<99, 109>> (* cm *),
      <<109, 109>> (* mm *), <<109, 108>> (* ml *), <<109, 103>> (* mg *), <<103, 98>> (* gb *), <<109, 98>> (* mb *), <<107, 98>> (* kb *), <<116, 98>> (* tb *), <<102, 116>> (* ft *),
      <<121, 100>> (* yd *), <<109, 105>> (* mi *), <<105, 110>> (* in *), <<111, 122>> (* oz *), <<108, 98>> (* lb *), <<118>> (* v *), <<119>> (* w *), <<106>> (* j *),
      <<112, 97>> (* pa *), <<110>> (* n *), <<119, 104>> (* wh *), <<107, 119, 104>> (* kwh *), <<107, 119>> (* kw *), <<109, 119>> (* mw *), <<104, 112>> (* hp *), <<109, 118>> (* mv *),
      <<109, 97>> (* ma *), <<107, 110>> (* kn *), <<112, 115, 105>> (* psi *), <<107, 112, 97>> (* kpa *), <<99, 97, 108>> (* cal *), <<107, 99, 97, 108>> (* kcal *), <<107, 106>> (* kj *),
      <<103, 97, 108>> (* gal *), <<109, 112, 104>> (* mph *), <<109, 115>> (* ms *) }

MATH_BRACKETS == { <<40>>, <<41>>, <<91>> (* [ *), <<93>> (* ] *) }

FRACTION_VALUES ==
    { <<<< 189 >>, 1, 2>>, <<<< 188 >>, 1, 4>>, <<<< 190 >>, 3, 4>>,
      <<<< 8531 >>, 1, 3>>, <<<< 8532 >>, 2, 3>>, <<<< 8533 >>, 1, 5>>,
      <<<< 8534 >>, 2, 5>>, <<<< 8535 >>, 3, 5>>, <<<< 8536 >>, 4, 5>>,
      <<<< 8537 >>, 1, 6>>, <<<< 8538 >>, 5, 6>>, <<<< 8539 >>, 1, 8>>,
      <<<< 8540 >>, 3, 8>>, <<<< 8541 >>, 5, 8>>, <<<< 8542 >>, 7, 8>>,
      <<<< 8528 >>, 1, 7>>, <<<< 8529 >>, 1, 9>>, <<<< 8530 >>, 1, 10>>,
      <<<< 8585 >>, 0, 3>> }

\* resources/transliteration_maps.py is not in src/: two Greek letters with
\* their spoken names, and the letter names math.py:178 quotes ("ac").
GREEK_NAMES_MAP == { <<<< 945 >>, <<1574, 1749, 1604, 1601, 1575>> (* ئەلفا *)>>, <<<< 946 >>, <<1576, 1742, 1578, 1575>> (* بێتا *)>> }

LETTER_MAP == { <<<<97>> (* a *), <<1574, 1749, 1740>> (* ئەی *)>>, <<<<98>> (* b *), <<1576, 1740>> (* بی *)>>, <<<<99>> (* c *), <<1587, 1740>> (* سی *)>>, <<<<120>> (* x *), <<1574, 1742, 1705, 1587>> (* ئێکس *)>>,
                <<<<121>> (* y *), <<1608, 1575, 1740>> (* وای *)>> }

Keys(table) == { r[1] : r \in table }

Values(table) == { r[2] : r \in table }

Lookup(table, key) == (CHOOSE r \in table : r[1] = key)[2]

\* str.maketrans of U+2080 .. U+2089 to "0123456789"
SUBSCRIPT_DIGITS ==
    { <<8320, 48>>, <<8321, 49>>, <<8322, 50>>, <<8323, 51>>, <<8324, 52>>,
      <<8325, 53>>, <<8326, 54>>, <<8327, 55>>, <<8328, 56>>, <<8329, 57>> }

\* str.maketrans of U+2070, U+00B9, U+00B2, U+00B3, U+2074 .. U+2079 to "0123456789"
SUPERSCRIPT_DIGITS ==
    { <<8304, 48>>, <<185, 49>>, <<178, 50>>, <<179, 51>>, <<8308, 52>>,
      <<8309, 53>>, <<8310, 54>>, <<8311, 55>>, <<8312, 56>>, <<8313, 57>> }

\* text.translate(table)
Translate(s, table) ==
    [ k \in 1..Len(s) |-> IF s[k] \in Keys(table) THEN Lookup(table, s[k]) ELSE s[k] ]

\* re.match(r"^[...]+$", s) for a class of characters
ClassMatch(s, cls) == \E t \in UpToDollar(s) : t # << >> /\ AllIn(t, cls)

\* re.match(r"^[\d,]+(\.\d+)?$", s)
NumFormatMatch(s) ==
    \E t \in UpToDollar(s) :
        /\ t # << >>
        /\ \/ AllIn(t, Digits \cup { 44 })
           \/ \E k \in 2..(Len(t) - 1) :
                /\ Ch(t, k) = 46
                /\ AllIn(SubSeq(t, 1, k - 1), Digits \cup { 44 })
                /\ AllIn(SubSeq(t, k + 1, Len(t)), Digits)

\* MathNormalizer._get_prev / _get_next, with 0-based k
GetPrev(toks, k) == IF k > 0 THEN toks[k] ELSE None

GetNext(toks, k) == IF k < Len(toks) - 1 THEN toks[k + 2] ELSE None

\* MathNormalizer._is_numeric_token
IsNumericToken(tok) ==
    /\ tok # None
    /\ \/ tok.type = "NUMBER"
       \/ (AnyIn(tok.orig, Digits) /\ NumFormatMatch(tok.orig))

\* Mixed phrasing in every case.
FormatFractionAlwaysMixed(num, denom, is_mixed) ==
    IF num = 1 /\ denom = 2 THEN <<1608, 32, 1606, 1740, 1608>> (* و نیو *)
    ELSE IF num = 1 /\ denom = 4 THEN <<1608, 32, 1670, 1575, 1585, 1749, 1705>> (* و چارەک *)
    ELSE <<1688, 1605, 1575, 1585, 1749, 1740, 32, 1578, 1749, 1608, 1575, 1608, 32, 1608, 32>> \o IntToKurdish(num) \o <<32, 1604, 1749, 1587, 1749, 1585, 32>> \o IntToKurdish(denom)

\* The quarter read as the half.
FormatFractionQuarterAsHalf(num, denom, is_mixed) ==
    IF num = 1 /\ denom \in { 2, 4 } THEN (IF is_mixed THEN <<1608, 32, 1606, 1740, 1608>> (* و نیو *) ELSE <<1606, 1740, 1608, 1749>> (* نیوە *))
    ELSE IF is_mixed
    THEN <<1688, 1605, 1575, 1585, 1749, 1740, 32, 1578, 1749, 1608, 1575, 1608, 32, 1608, 32>> \o IntToKurdish(num) \o <<32, 1604, 1749, 1587, 1749, 1585, 32>> \o IntToKurdish(denom)
    ELSE IntToKurdish(num) \o <<32, 1583, 1575, 1576, 1749, 1588, 32>> \o IntToKurdish(denom)

\* MathNormalizer._format_fraction
FormatFraction(num, denom, is_mixed) ==
    IF num = 1 /\ denom = 2 THEN (IF is_mixed THEN <<1608, 32, 1606, 1740, 1608>> (* و نیو *) ELSE <<1606, 1740, 1608, 1749>> (* نیوە *))
    ELSE IF num = 1 /\ denom = 4 THEN (IF is_mixed THEN <<1608, 32, 1670, 1575, 1585, 1749, 1705>> (* و چارەک *) ELSE <<1670, 1575, 1585, 1749, 1705>> (* چارەک *))
    ELSE IF is_mixed
    THEN <<1688, 1605, 1575, 1585, 1749, 1740, 32, 1578, 1749, 1608, 1575, 1608, 32, 1608, 32>> \o IntToKurdish(num) \o <<32, 1604, 1749, 1587, 1749, 1585, 32>> \o IntToKurdish(denom)
    ELSE IntToKurdish(num) \o <<32, 1583, 1575, 1576, 1749, 1588, 32>> \o IntToKurdish(denom)

\* MathNormalizer._is_math_term
IsMathTerm(tx) ==
    \/ Lower(tx) \in Keys(MATH_FUNCTIONS)
    \/ tx \in Keys(GREEK_NAMES_MAP)
    \/ tx \in Values(MATH_FUNCTIONS)

\* re.match(r"^[a-zA-Z]{1,2}$", s)
LatinVariableMatch(s) == \E t \in UpToDollar(s) : Len(t) \in { 1, 2 } /\ AllIn(t, Letters)

\* is_mathy of _check_math_context
IsMathy(t) ==
    /\ t # None
    /\ \/ t.type = "NUMBER"
       \/ "MATH_TERM" \in t.tags
       \/ IsMathTerm(t.text)
       \/ t.type \in { "SUBSCRIPT", "SUPERSCRIPT" }
       \/ (t.type = "WORD" /\ Len(t.text) = 1 /\ AllIn(t.text, Alpha))
       \/ t.text \in Keys(GREEK_NAMES_MAP)

\* A bracket needs a confirming token on both sides.
CheckMathContextBothSides(current, prev, next_t) ==
    LET startOrUnary == \/ prev = None
                        \/ prev.text \in { <<40>>, <<91>> (* [ *), <<123>> (* { *), <<61>> (* = *), <<44>> (* , *) }
                        \/ prev.text \in Keys(MATH_SYMBOLS)
    IN  \/ /\ current.text \in MATH_BRACKETS
           /\ (startOrUnary \/ IsMathy(prev) \/ prev.text \in { <<41>>, <<93>> (* ] *) })
           /\ (next_t # None /\ (IsMathy(next_t) \/ next_t.text \in { <<40>>, <<91>> (* [ *), <<115, 105, 110>> (* sin *), <<99, 111, 115>> (* cos *) }))
        \/ /\ current.text \in Keys(MATH_SYMBOLS)
           /\ (startOrUnary \/ IsMathy(prev) \/ prev.text \in { <<41>> })
           /\ next_t # None
           /\ (IsMathy(next_t) \/ next_t.text \in { <<40>> })
        \/ /\ current.type = "WORD"
           /\ LatinVariableMatch(current.text)
           /\ Lower(current.text) \notin STRICT_UNITS
           /\ \/ (prev # None /\ prev.type = "NUMBER")
              \/ (next_t # None /\ next_t.type = "NUMBER")
              \/ (prev # None /\ prev.text \in Keys(MATH_SYMBOLS))
              \/ (next_t # None /\ next_t.text \in Keys(MATH_SYMBOLS))
              \/ (prev # None /\ prev.text \in MATH_BRACKETS)
              \/ (next_t # None /\ next_t.text \in MATH_BRACKETS)

\* MathNormalizer._check_math_context
CheckMathContext(current, prev, next_t) ==
    LET startOrUnary == \/ prev = None
                        \/ prev.text \in { <<40>>, <<91>> (* [ *), <<123>> (* { *), <<61>> (* = *), <<44>> (* , *) }
                        \/ prev.text \in Keys(MATH_SYMBOLS)
    IN  \/ /\ current.text \in MATH_BRACKETS
           /\ \/ startOrUnary \/ IsMathy(prev) \/ prev.text \in { <<41>>, <<93>> (* ] *) }
              \/ (next_t # None /\ (IsMathy(next_t) \/ next_t.text \in { <<40>>, <<91>> (* [ *), <<115, 105, 110>> (* sin *), <<99, 111, 115>> (* cos *) }))
        \/ /\ current.text \in Keys(MATH_SYMBOLS)
           /\ (startOrUnary \/ IsMathy(prev) \/ prev.text \in { <<41>> })
           /\ next_t # None
           /\ (IsMathy(next_t) \/ next_t.text \in { <<40>> })
        \/ /\ current.type = "WORD"
           /\ LatinVariableMatch(current.text)
           /\ Lower(current.text) \notin STRICT_UNITS
           /\ \/ (prev # None /\ prev.type = "NUMBER")
              \/ (next_t # None /\ next_t.type = "NUMBER")
              \/ (prev # None /\ prev.text \in Keys(MATH_SYMBOLS))
              \/ (next_t # None /\ next_t.text \in Keys(MATH_SYMBOLS))
              \/ (prev # None /\ prev.text \in MATH_BRACKETS)
              \/ (next_t # None /\ next_t.text \in MATH_BRACKETS)

\* if prev and not prev.whitespace_after: prev.whitespace_after = " "
PadPrev(toks, k) ==
    IF k > 0 /\ toks[k].ws = << >> THEN [toks EXCEPT ![k].ws = <<32>>] ELSE toks

\* if prev: prev.whitespace_after = " "
ForcePrev(toks, k) == IF k > 0 THEN [toks EXCEPT ![k].ws = <<32>>] ELSE toks

\* int(ascii_digits) of math.py:107 and 138 raises ValueError: the text
\* passed isdigit() and holds a digit that is no decimal digit
IntRaises(s) == ~IsIntText(s)

\* math.py:216-292 for an operator in math context whose range and fraction
\* branches did not apply: the unary reading or the table word
OperatorWord(tok, prev) ==
    LET is_unary == \/ prev = None
                    \/ prev.text \in { <<40>>, <<91>> (* [ *), <<123>> (* { *), <<61>> (* = *), <<44>> (* , *) }
                    \/ (prev.type = "SYMBOL" /\ prev.text \in Keys(MATH_SYMBOLS))
    IN  IF is_unary /\ tok.text \in { <<45>> (* - *), << 8722 >>, <<43>> (* + *) }
        THEN (IF tok.text = <<43>> (* + *) THEN <<1605, 1608, 1580, 1749, 1576>> (* موجەب *) ELSE <<1587, 1575, 1604, 1576>> (* سالب *))
        ELSE Lookup(MATH_SYMBOLS, tok.text)

\* is_active_math of math.py:231-237
IsActiveMath(t) ==
    /\ t # None
    /\ \/ t.text \in Keys(MATH_SYMBOLS)
       \/ t.text \in MATH_BRACKETS
       \/ IsMathTerm(t.text)
       \/ "MATH_TERM" \in t.tags

\* No token counts as unit-tagged.
UnitTaggedNever(t) == FALSE

UnitTagged(t) == "IS_UNIT" \in t.tags \/ "UNIT_PROCESSED" \in t.tags

\* " ".join(LETTER_MAP.get(char, char) for char in text.lower())
SpellLetters(s) ==
    LET low == Lower(s)
        name(c) == IF << c >> \in Keys(LETTER_MAP) THEN Lookup(LETTER_MAP, << c >>) ELSE << c >>
    IN  Join(<<32>>, [ k \in 1..Len(low) |-> name(low[k]) ])

\* math.py:100-115 and 117-148, the branch taken past its guard; unit is
\* is_unit_context, table the digit table, word the spoken prefix
ScriptBranch(toks, k, table, word, unit) ==
    LET tok == toks[k + 1]
        ascii_digits == Translate(tok.text, table)
        same == [toks |-> toks, i |-> k + 1, raise |-> FALSE]
    IN  IF unit THEN same
        ELSE IF ~PyIsDigit(ascii_digits) THEN same
        ELSE IF IntRaises(ascii_digits) THEN [toks |-> toks, i |-> k, raise |-> TRUE]
        ELSE [ toks |-> PadPrev([toks EXCEPT ![k + 1] =
                          [tok EXCEPT !.text = word \o IntToKurdish(ParseInt(ascii_digits)),
                                      !.type = "WORD",
                                      !.tags = @ \cup { "MATH_TERM" },
                                      !.ws = <<32>>]], k),
               i |-> k + 1, raise |-> FALSE ]

\* math.py:192-292, the operator and bracket branch past its guard
OperatorBranch(toks, k) ==
    LET tok == toks[k + 1]
        prev == GetPrev(toks, k)
        next_t == GetNext(toks, k)
        same == [toks |-> toks, i |-> k + 1, raise |-> FALSE]
        spoken(tx, force) ==
            LET t1 == [toks EXCEPT ![k + 1] = [tok EXCEPT !.text = tx, !.type = "WORD",
                                                          !.ws = <<32>>]]
            IN  [toks |-> IF force THEN ForcePrev(t1, k) ELSE PadPrev(t1, k),
                 i |-> k + 1, raise |-> FALSE]
        prev_prev == IF prev # None THEN GetPrev(toks, k - 1) ELSE None
        next_next == IF next_t # None THEN GetNext(toks, k + 1) ELSE None
        is_range == /\ tok.text \in { <<45>> (* - *), << 8722 >> }
                    /\ IsNumericToken(prev) /\ IsNumericToken(next_t)
                    /\ ~(IsActiveMath(prev_prev) \/ IsActiveMath(next_next))
        is_division == tok.text \in { <<47>> (* / *), << 247 >> }
        unit_slash == /\ is_division /\ prev # None /\ next_t # None
                      /\ UnitTagged(prev) /\ UnitTagged(next_t)
        num_text == RemoveChar(prev.text, 44)
        denom_text == RemoveChar(next_t.text, 44)
        is_fraction == /\ is_division /\ prev # None /\ next_t # None
                       /\ prev.type = "NUMBER" /\ next_t.type = "NUMBER"
                       /\ IsIntText(num_text) /\ IsIntText(denom_text)
        merged ==
            [toks EXCEPT
               ![k] = [prev EXCEPT
                         !.text = FormatFraction(ParseInt(num_text), ParseInt(denom_text),
                                                 IsNumericToken(GetPrev(toks, k - 1))),
                         !.type = "WORD",
                         !.tags = @ \cup { "FRACTION" },
                         !.ws = <<32>>],
               ![k + 1] = [tok EXCEPT !.text = << >>, !.type = "UNKNOWN"],
               ![k + 2] = [next_t EXCEPT !.text = << >>, !.type = "UNKNOWN"]]
    IN  IF /\ tok.text = <<43>> (* + *) /\ prev # None /\ next_t # None
           /\ prev.type = "WORD" /\ next_t.type = "WORD"
           /\ Len(prev.text) > 1 /\ "MATH_TERM" \notin prev.tags
        THEN spoken(<<1604, 1749, 1711, 1749, 1717>> (* لەگەڵ *), FALSE)
        ELSE IF /\ tok.text = <<43>> (* + *) /\ prev # None /\ next_t # None
                /\ prev.type = "WORD" /\ next_t.type = "NUMBER"
                /\ "MATH_TERM" \notin prev.tags
        THEN same
        ELSE IF ~CheckMathContext(tok, prev, next_t) THEN same
        ELSE IF tok.text \in MATH_BRACKETS
        THEN [toks |-> [toks EXCEPT ![k + 1] = [tok EXCEPT !.type = "WORD", !.ws = <<32>>]],
              i |-> k + 1, raise |-> FALSE]
        ELSE IF is_range THEN spoken(<<1576, 1734>> (* بۆ *), TRUE)
        ELSE IF unit_slash THEN same
        ELSE IF is_fraction THEN [toks |-> merged, i |-> k + 2, raise |-> FALSE]
        ELSE spoken(OperatorWord(tok, prev), TRUE)

\* math.py:80-294, one iteration of the loop of process at index k
MathIteration(toks, k) ==
    LET tok == toks[k + 1]
        prev == GetPrev(toks, k)
        next_t == GetNext(toks, k)
        same == [toks |-> toks, i |-> k + 1, raise |-> FALSE]
        changed(t2) == [toks |-> [toks EXCEPT ![k + 1] = t2], i |-> k + 1,
                        raise |-> FALSE]
        fraction == CHOOSE r \in FRACTION_VALUES : r[1] = tok.text
        unit_context ==
            /\ prev # None
            /\ \/ UnitTagged(prev)
               \/ /\ prev.type = "WORD"
                  /\ \E e \in { <<1605, 1749, 1578, 1585>> (* مەتر *), <<1711, 1585, 1575, 1605>> (* گرام *), <<1604, 1740, 1578, 1585>> (* لیتر *), <<1670, 1585, 1705, 1749>> (* چرکە *) } : EndsWith(prev.text, e)
    IN  IF tok.text \in Keys(FRACTION_VALUES)
        THEN [ toks |-> PadPrev([toks EXCEPT ![k + 1] =
                          [tok EXCEPT !.text = FormatFraction(fraction[2], fraction[3],
                                                              IsNumericToken(prev)),
                                      !.type = "WORD", !.ws = <<32>>]], k),
               i |-> k + 1, raise |-> FALSE ]
        ELSE IF \/ tok.type = "SUBSCRIPT"
                \/ (tok.type \in { "SYMBOL", "UNKNOWN" } /\ ClassMatch(tok.text, Keys(SUBSCRIPT_DIGITS)))
        THEN ScriptBranch(toks, k, SUBSCRIPT_DIGITS, <<1576, 1606, 1670, 1740, 1606, 1749, 32>>, FALSE)
        ELSE IF \/ tok.type = "SUPERSCRIPT"
                \/ (tok.type \in { "SYMBOL", "UNKNOWN" } /\ ClassMatch(tok.text, Keys(SUPERSCRIPT_DIGITS)))
        THEN ScriptBranch(toks, k, SUPERSCRIPT_DIGITS, <<1578, 1608, 1575, 1606, 32>>, unit_context)
        ELSE IF tok.type = "WORD" /\ Lower(tok.text) \in Keys(MATH_FUNCTIONS)
        THEN changed([tok EXCEPT !.text = Lookup(MATH_FUNCTIONS, Lower(tok.text)),
                                 !.tags = @ \cup { "MATH_FUNCTION" }])
        ELSE IF tok.type = "WORD" /\ tok.text \in Keys(GREEK_NAMES_MAP)
        THEN changed([tok EXCEPT !.text = Lookup(GREEK_NAMES_MAP, tok.text),
                                 !.tags = @ \cup { "MATH_FUNCTION" }])
        ELSE IF /\ tok.type = "WORD"
                /\ LatinVariableMatch(tok.text)
                /\ ~("IS_UNIT" \in tok.tags /\ Lower(tok.text) \in STRICT_UNITS)
                /\ CheckMathContext(tok, prev, next_t)
        THEN [ toks |-> PadPrev([toks EXCEPT ![k + 1] =
                          [tok EXCEPT !.text = SpellLetters(tok.text),
                                      !.tags = @ \cup { "MATH_TERM" },
                                      !.ws = <<32>>]], k),
               i |-> k + 1, raise |-> FALSE ]
        ELSE IF /\ tok.type = "SYMBOL"
                /\ tok.text \in Keys(MATH_SYMBOLS) \cup MATH_BRACKETS
        THEN OperatorBranch(toks, k)
        ELSE same

\* The list returned as it is, blanked tokens included.
DropEmptyKeepsAll(toks) == toks

\* return [t for t in tokens if t.text]
DropEmpty(toks) == SelectSeq(toks, LAMBDA t : t.text # << >>)

RECURSIVE MathFrom(_, _)
MathFrom(toks, k) ==
    IF k >= Len(toks) THEN [out |-> DropEmpty(toks), raise |-> FALSE]
    ELSE LET Rest(r) ==
                 IF r.raise THEN [out |-> << >>, raise |-> TRUE] ELSE MathFrom(r.toks, r.i)
         IN  Rest(MathIteration(toks, k))

\* process(tokens): the loop and the filtered list, or raise when int() raised
MathProcess(toks) == MathFrom(toks, 0)

MaxMathTok == 4

\* math.py:80-294, one iteration of the loop of process
MathStep ==
    /\ pc = "math_loop"
    /\ i < Len(tokens)
    /\ \E r \in { MathIteration(tokens, i) } :
           IF r.raise
           THEN /\ raised' = TRUE
                /\ pc' = "math_raised"
                /\ UNCHANGED << tokens, i >>
           ELSE /\ tokens' = r.toks
                /\ i' = r.i
                /\ UNCHANGED << raised, pc >>
    /\ UNCHANGED << config, prio, modules, calls, cur, ran, text, input,
                    new_tokens, tech_indices >>

\* math.py:296
MathReturn ==
    /\ pc = "math_loop"
    /\ i >= Len(tokens)
    /\ tokens' = DropEmpty(tokens)
    /\ pc' = "math_done"
    /\ UNCHANGED << config, prio, modules, calls, cur, ran, text, input, i,
                    new_tokens, tech_indices, raised >>

\* Token lists of integers, a decimal, a unit-tagged number, the slash, two
\* fraction glyphs, a variable, the minus sign and a bracket.
MathTokens ==
    { Token(tx, tx, "NUMBER", {}, << >>) : tx \in { A("1"), A("2"), A("4"), A("1.5") } }
    \cup { Token(A("2"), A("2"), "NUMBER", { "IS_UNIT" }, << >>) }
    \cup { Token(tx, tx, "SYMBOL", {}, << >>) : tx \in { A("/"), << 189 >>, << 190 >>, A("-"), A("(") } }
    \cup { Token(A("x"), A("x"), "WORD", {}, << >>) }

MathInit ==
    /\ pc = "math_loop"
    /\ \E toks \in SeqsUpTo(MathTokens, MaxMathTok) : PassInit(toks)

MathNext == MathStep \/ MathReturn

MathSpec == MathInit /\ [][MathNext]_vars

\* The loop is at a slash whose neighbours are NUMBER tokens with integer
\* text, neither of them unit-tagged.
AtIntegerSlash ==
    /\ pc = "math_loop"
    /\ i >= 1
    /\ i + 1 < Len(tokens)
    /\ tokens[i + 1].type = "SYMBOL"
    /\ tokens[i + 1].text = A("/")
    /\ tokens[i].type = "NUMBER" /\ tokens[i + 2].type = "NUMBER"
    /\ IsIntText(tokens[i].text) /\ IsIntText(tokens[i + 2].text)
    /\ ~UnitTagged(tokens[i]) /\ ~UnitTagged(tokens[i + 2])

\* the token before the numerator is numeric
NumeratorFollowsNumber ==
    /\ i >= 2
    /\ \/ tokens[i - 1].type = "NUMBER"
       \/ (AnyIn(tokens[i - 1].orig, Digits) /\ NumFormatMatch(tokens[i - 1].orig))

PlainText(n, d) ==
    IF n = 1 /\ d = 2 THEN K("nywe")
    ELSE IF n = 1 /\ d = 4 THEN K("carek")
    ELSE IntToKurdish(n) \o K(" dabe$ ") \o IntToKurdish(d)

MixedText(n, d) ==
    IF n = 1 /\ d = 2 THEN K("w nyw")
    ELSE IF n = 1 /\ d = 4 THEN K("w carek")
    ELSE K("~marey tewaw w ") \o IntToKurdish(n) \o K(" leser ") \o IntToKurdish(d)

\* the step blanks the slash and the denominator and moves past them
SlashAndDenominatorDropped ==
    /\ tokens'[i + 1].text = << >>
    /\ tokens'[i + 2].text = << >>
    /\ i' = i + 2
    /\ Len(tokens') = Len(tokens)

\* process returns no token with an empty text
ReturnsNoEmptyToken ==
    pc' = "math_done" => \A j \in 1..Len(tokens') : tokens'[j].text # << >>

\* C9 as stated: a "/" between two NUMBER tokens with integer text, not
\* unit-tagged, is merged into one token, the slash and the denominator are
\* removed, and the text is "nywe" for 1/2, "carek" for 1/4 and
\* "{numerator words} dabe$ {denominator words}" otherwise.
C9_Original ==
    [][ /\ AtIntegerSlash =>
            /\ SlashAndDenominatorDropped
            /\ tokens'[i].text = PlainText(ParseInt(tokens[i].text),
                                           ParseInt(tokens[i + 2].text))
        /\ ReturnsNoEmptyToken ]_vars

\* C9, amended: when the loop visits a "/" between two NUMBER tokens with
\* integer text, not unit-tagged, the three are merged into one token, the
\* slash and the denominator are removed from the returned list, and the text
\* is the plain fraction when the token before the numerator is not numeric
\* and the mixed-number phrase when it is.
C9_FractionMerge ==
    [][ /\ AtIntegerSlash =>
            /\ SlashAndDenominatorDropped
            /\ tokens'[i].type = "WORD"
            /\ tokens'[i].text =
                 IF NumeratorFollowsNumber
                 THEN MixedText(ParseInt(tokens[i].text), ParseInt(tokens[i + 2].text))
                 ELSE PlainText(ParseInt(tokens[i].text), ParseInt(tokens[i + 2].text))
        /\ ReturnsNoEmptyToken ]_vars

\* "1/4" after a number and "2/4" at the start of the list were merged.
C9_Witness ==
    /\ pc = "math_done"
    /\ Len(input) = 4
    /\ \/ /\ input[1].type = "NUMBER" /\ input[3].text = A("/")
          /\ Len(tokens) = 2
          /\ tokens[2].text = K("w carek")
       \/ /\ input[2].text = A("/") /\ input[4].text = A("x")
          /\ Len(tokens) = 2
          /\ tokens[1].text = K("dww dabe$ cwar")

MixedPhrase(s) ==
    \/ s \in { K("w nyw"), K("w carek") }
    \/ (StartsWith(s, K("~marey tewaw w ")) /\ Has(s, K(" leser ")))

PlainPhrase(s) ==
    \/ s \in { K("nywe"), K("carek") }
    \/ (~StartsWith(s, K("~marey")) /\ Has(s, K(" dabe$ ")))

\* the step turns the glyph at the loop index into words
RendersGlyph ==
    /\ pc = "math_loop"
    /\ i < Len(tokens)
    /\ tokens[i + 1].text \in Keys(FRACTION_VALUES)
    /\ pc' = "math_loop"

\* the step merges "N / M" around the loop index into the numerator token
RendersSlash ==
    /\ pc = "math_loop"
    /\ i >= 1
    /\ i + 1 < Len(tokens)
    /\ tokens[i + 1].text \in { A("/"), << 247 >> }
    /\ pc' = "math_loop"
    /\ tokens'[i + 1].text = << >>

\* C10: a fraction, "N / M" between two NUMBER tokens or a fraction glyph, is
\* rendered with the mixed-number phrase if and only if the token immediately
\* before the numerator or glyph is a numeric token; otherwise it is rendered
\* as a plain fraction.
C10_MixedIffNumericBefore ==
    [][ /\ RendersGlyph =>
            /\ MixedPhrase(tokens'[i + 1].text) <=> IsNumericToken(GetPrev(tokens, i))
            /\ ~IsNumericToken(GetPrev(tokens, i)) => PlainPhrase(tokens'[i + 1].text)
        /\ RendersSlash =>
            /\ MixedPhrase(tokens'[i].text) <=> IsNumericToken(GetPrev(tokens, i - 1))
            /\ ~IsNumericToken(GetPrev(tokens, i - 1)) => PlainPhrase(tokens'[i].text) ]_vars

\* A glyph after a number was read as "and a half", and a merged "1/2" after
\* a variable was read as the plain half.
C10_Witness ==
    /\ pc = "math_done"
    /\ \/ /\ Len(input) = 2
          /\ input[1].type = "NUMBER" /\ input[2].text = << 189 >>
          /\ tokens[2].text = K("w nyw")
       \/ /\ Len(input) = 4
          /\ input[1].text = A("x") /\ input[3].text = A("/")
          /\ Len(tokens) = 2
          /\ tokens[2].text = K("nywe")


(***************************************************************************)
(***************************************************************************)
(* DateTimeNormalizer  (modules/date_time.py)                              *)
(***************************************************************************)
KURDISH_MONTHS ==
    << <<1705, 1575, 1606, 1608, 1606, 1740, 32, 1583, 1608, 1608, 1749, 1605>> (* کانونی دووەم *), <<1588, 1608, 1576, 1575, 1578>> (* شوبات *), <<1574, 1575, 1586, 1575, 1585>> (* ئازار *), <<1606, 1740, 1587, 1575, 1606>> (* نیسان *), <<1574, 1575, 1740, 1575, 1585>> (* ئایار *), <<1581, 1608, 1586, 1749, 1740, 1585, 1575, 1606>> (* حوزەیران *), <<1578, 1749, 1605, 1605, 1608, 1586>> (* تەمموز *),
       <<1574, 1575, 1576>> (* ئاب *), <<1574, 1749, 1740, 1604, 1608, 1608, 1604>> (* ئەیلوول *), <<1578, 1588, 1585, 1740, 1606, 1740, 32, 1740, 1749, 1705, 1749, 1605>> (* تشرینی یەکەم *), <<1578, 1588, 1585, 1740, 1606, 1740, 32, 1583, 1608, 1608, 1749, 1605>> (* تشرینی دووەم *), <<1705, 1575, 1606, 1608, 1606, 1740, 32, 1740, 1749, 1705, 1749, 1605>> (* کانونی یەکەم *) >>

AM_SUFFIXES == << <<65, 77>> (* AM *), <<65, 46, 77, 46>> (* A.M. *), <<1662, 46, 1606>> (* پ.ن *), <<1576, 1749, 1740, 1575, 1606, 1740>> (* بەیانی *), <<1662, 1742, 1588, 32, 1606, 1740, 1608, 1749, 1685, 1734>> (* پێش نیوەڕۆ *), <<1662, 1742, 1588, 1606, 1740, 1608, 1749, 1685, 1734>> (* پێشنیوەڕۆ *) >>

PM_SUFFIXES ==
    << <<80, 77>> (* PM *), <<80, 46, 77, 46>> (* P.M. *), <<1583, 46, 1606>> (* د.ن *), <<1583, 1608, 1575, 1740, 32, 1606, 1740, 1608, 1749, 1685, 1734>> (* دوای نیوەڕۆ *), <<1583, 1608, 1575, 1740, 32, 1606, 1740, 1608, 1749, 1585, 1734>> (* دوای نیوەرۆ *), <<1583, 1608, 1575, 32, 1606, 1740, 1608, 1749, 1685, 1734>> (* دوا نیوەڕۆ *), <<1662, 1575, 1588, 32, 1606, 1740, 1608, 1749, 1685, 1734>> (* پاش نیوەڕۆ *),
       <<1662, 1575, 1588, 32, 1606, 1740, 1608, 1749, 1585, 1734>> (* پاش نیوەرۆ *), <<1662, 1575, 1588, 1606, 1740, 1608, 1749, 1685, 1734>> (* پاشنیوەڕۆ *), <<1574, 1742, 1608, 1575, 1585, 1749>> (* ئێوارە *), <<1593, 1749, 1587, 1585>> (* عەسر *), <<1606, 1740, 1608, 1749, 1685, 1734>> (* نیوەڕۆ *) >>

SPECIAL_SUFFIXES == << <<1588, 1749, 1608>> (* شەو *) >>

SUFFIX_TOKENS == AM_SUFFIXES \o PM_SUFFIXES \o SPECIAL_SUFFIXES

\* resources/patterns.py is not in src/: the grammatical suffixes the comments
\* of date_time.py name (U+06D5, and "ye" after a vowel) and the definite,
\* plural, locative and additive endings.
SUFFIXES_LIST == { <<1749>> (* ە *), <<1749, 1705, 1749>> (* ەکە *), <<1749, 1705, 1575, 1606>> (* ەکان *), <<1583, 1575>> (* دا *), <<1740, 1749>> (* یە *), <<1588>> (* ش *) }

KURDISH_VOWELS == << <<1608, 1608>> (* وو *), <<1608>> (* و *), <<1740>> (* ی *), <<1742>> (* ێ *), <<1575>> (* ا *), <<1749>> (* ە *), <<1734>> (* ۆ *) >>

\* the letters U+06CC and U+064A
LinkingY == { 1740, 1610 }

\* a character of the class [\d:]
TimeChars == Digits \cup { 58 }

\* The four-digit first field read as the day.
ConvertDateFirstFieldDay(tx) ==
    LET spoken(day, month, year) ==
            IntToKurdish(day) \o <<1740, 32>>
            \o (IF month \in 1..12 THEN KURDISH_MONTHS[month]
                ELSE <<1605, 1575, 1606, 1711, 1740, 32>> \o IntToKurdish(month))
            \o <<1740, 32, 1587, 1575, 1717, 1740, 32>> \o IntToKurdish(year)
        \* the fields read as integers, in the order day, month, year
        Fields(p0, p1, p2, v0, v1, v2) ==
            IF Len(p0) = 4 /\ ~IsIntText(p1) THEN << >>
            ELSE IF Len(p0) = 4 /\ v1 \in 1..12
            THEN IF IsIntText(p0) /\ IsIntText(p2) THEN << v0, v1, v2 >> ELSE << >>
            ELSE IF Len(p2) = 4
            THEN IF IsIntText(p2) /\ IsIntText(p0) /\ IsIntText(p1)
                 THEN IF v0 > 12 /\ v1 <= 12 THEN << v0, v1, v2 >>
                      ELSE IF v1 > 12 /\ v0 <= 12 THEN << v1, v0, v2 >>
                      ELSE << v0, v1, v2 >>
                 ELSE << >>
            ELSE << >>
        Read(f) == IF f = << >> THEN tx ELSE spoken(f[1], f[2], f[3])
        Parts(parts) ==
            IF Len(parts) # 3 THEN tx
            ELSE Read(Fields(parts[1], parts[2], parts[3],
                             ParseInt(parts[1]), ParseInt(parts[2]), ParseInt(parts[3])))
    IN  Parts(Split(tx, { 47, 45, 46 }))

\* The first of the two remaining fields always read as the day.
ConvertDateDayFirst(tx) ==
    LET spoken(day, month, year) ==
            IntToKurdish(day) \o <<1740, 32>>
            \o (IF month \in 1..12 THEN KURDISH_MONTHS[month]
                ELSE <<1605, 1575, 1606, 1711, 1740, 32>> \o IntToKurdish(month))
            \o <<1740, 32, 1587, 1575, 1717, 1740, 32>> \o IntToKurdish(year)
        \* the fields read as integers, in the order day, month, year
        Fields(p0, p1, p2, v0, v1, v2) ==
            IF Len(p0) = 4 /\ ~IsIntText(p1) THEN << >>
            ELSE IF Len(p0) = 4 /\ v1 \in 1..12
            THEN IF IsIntText(p0) /\ IsIntText(p2) THEN << v2, v1, v0 >> ELSE << >>
            ELSE IF Len(p2) = 4
            THEN IF IsIntText(p2) /\ IsIntText(p0) /\ IsIntText(p1)
                 THEN IF v0 > 12 /\ v1 <= 12 THEN << v0, v1, v2 >>
                      ELSE IF v1 > 12 /\ v0 <= 12 THEN << v0, v1, v2 >>
                      ELSE << v0, v1, v2 >>
                 ELSE << >>
            ELSE << >>
        Read(f) == IF f = << >> THEN tx ELSE spoken(f[1], f[2], f[3])
        Parts(parts) ==
            IF Len(parts) # 3 THEN tx
            ELSE Read(Fields(parts[1], parts[2], parts[3],
                             ParseInt(parts[1]), ParseInt(parts[2]), ParseInt(parts[3])))
    IN  Parts(Split(tx, { 47, 45, 46 }))

\* DateTimeNormalizer._convert_date
ConvertDate(tx) ==
    LET spoken(day, month, year) ==
            IntToKurdish(day) \o <<1740, 32>>
            \o (IF month \in 1..12 THEN KURDISH_MONTHS[month]
                ELSE <<1605, 1575, 1606, 1711, 1740, 32>> \o IntToKurdish(month))
            \o <<1740, 32, 1587, 1575, 1717, 1740, 32>> \o IntToKurdish(year)
        \* the fields read as integers, in the order day, month, year
        Fields(p0, p1, p2, v0, v1, v2) ==
            IF Len(p0) = 4 /\ ~IsIntText(p1) THEN << >>
            ELSE IF Len(p0) = 4 /\ v1 \in 1..12
            THEN IF IsIntText(p0) /\ IsIntText(p2) THEN << v2, v1, v0 >> ELSE << >>
            ELSE IF Len(p2) = 4
            THEN IF IsIntText(p2) /\ IsIntText(p0) /\ IsIntText(p1)
                 THEN IF v0 > 12 /\ v1 <= 12 THEN << v0, v1, v2 >>
                      ELSE IF v1 > 12 /\ v0 <= 12 THEN << v1, v0, v2 >>
                      ELSE << v0, v1, v2 >>
                 ELSE << >>
            ELSE << >>
        Read(f) == IF f = << >> THEN tx ELSE spoken(f[1], f[2], f[3])
        Parts(parts) ==
            IF Len(parts) # 3 THEN tx
            ELSE Read(Fields(parts[1], parts[2], parts[3],
                             ParseInt(parts[1]), ParseInt(parts[2]), ParseInt(parts[3])))
    IN  Parts(Split(tx, { 47, 45, 46 }))

\* _get_time_period with the noon window closed at 13.
GetTimePeriodShortNoon(hour) ==
    IF 0 <= hour /\ hour < 1 THEN <<1606, 1740, 1608, 1749, 1588, 1749, 1608>> (* نیوەشەو *)
    ELSE IF 1 <= hour /\ hour < 4 THEN <<1588, 1749, 1608>> (* شەو *)
    ELSE IF 4 <= hour /\ hour < 6 THEN <<1576, 1749, 1585, 1749, 1576, 1749, 1740, 1575, 1606>> (* بەرەبەیان *)
    ELSE IF 6 <= hour /\ hour < 10 THEN <<1576, 1749, 1740, 1575, 1606, 1740>> (* بەیانی *)
    ELSE IF 10 <= hour /\ hour < 12 THEN <<1662, 1742, 1588, 32, 1606, 1740, 1608, 1749, 1685, 1734>> (* پێش نیوەڕۆ *)
    ELSE IF 12 <= hour /\ hour < 13 THEN <<1606, 1740, 1608, 1749, 1685, 1734>> (* نیوەڕۆ *)
    ELSE IF 14 <= hour /\ hour < 18 THEN <<1583, 1608, 1575, 1740, 32, 1606, 1740, 1608, 1749, 1685, 1734>> (* دوای نیوەڕۆ *)
    ELSE IF 18 <= hour /\ hour < 21 THEN <<1574, 1742, 1608, 1575, 1585, 1749>> (* ئێوارە *)
    ELSE <<1588, 1749, 1608>> (* شەو *)

\* DateTimeNormalizer._get_time_period
GetTimePeriod(hour) ==
    IF 0 <= hour /\ hour < 1 THEN <<1606, 1740, 1608, 1749, 1588, 1749, 1608>> (* نیوەشەو *)
    ELSE IF 1 <= hour /\ hour < 4 THEN <<1588, 1749, 1608>> (* شەو *)
    ELSE IF 4 <= hour /\ hour < 6 THEN <<1576, 1749, 1585, 1749, 1576, 1749, 1740, 1575, 1606>> (* بەرەبەیان *)
    ELSE IF 6 <= hour /\ hour < 10 THEN <<1576, 1749, 1740, 1575, 1606, 1740>> (* بەیانی *)
    ELSE IF 10 <= hour /\ hour < 12 THEN <<1662, 1742, 1588, 32, 1606, 1740, 1608, 1749, 1685, 1734>> (* پێش نیوەڕۆ *)
    ELSE IF 12 <= hour /\ hour < 14 THEN <<1606, 1740, 1608, 1749, 1685, 1734>> (* نیوەڕۆ *)
    ELSE IF 14 <= hour /\ hour < 18 THEN <<1583, 1608, 1575, 1740, 32, 1606, 1740, 1608, 1749, 1685, 1734>> (* دوای نیوەڕۆ *)
    ELSE IF 18 <= hour /\ hour < 21 THEN <<1574, 1742, 1608, 1575, 1585, 1749>> (* ئێوارە *)
    ELSE <<1588, 1749, 1608>> (* شەو *)

\* s.replace(' ', '').upper() for every s of a suffix list
UpperSuffixes(list) == [ k \in 1..Len(list) |-> Upper(RemoveChars(list[k], { 32 })) ]

AmUpper == UpperSuffixes(AM_SUFFIXES)

PmUpper == UpperSuffixes(PM_SUFFIXES)

\* any(s.replace(' ', '').upper() == s_upper for s in the list)
SuffixIn(s_upper, uppers) == \E k \in 1..Len(uppers) : uppers[k] = s_upper

\* The period word in every phrase.
ConvertTimeAlwaysPeriod(tx, suffix) ==
    LET \* date_time.py:309-331, the output construction
        Phrase(minute, hour_text, min_text, explicit, label) ==
            IF explicit
            THEN IF minute = 0 THEN hour_text \o <<1740, 32>> \o label
                 ELSE IF minute = 30 THEN hour_text \o <<32, 1608, 32, 1606, 1740, 1608, 1740, 32>> \o label
                 ELSE hour_text \o <<32, 1608, 32>> \o min_text \o <<32, 1582, 1608, 1604, 1749, 1705, 1740, 32>> \o label
            ELSE IF minute = 0 THEN hour_text
            ELSE IF minute = 30 THEN hour_text \o <<32, 1608, 32, 1606, 1740, 1608>>
            ELSE hour_text \o <<32, 1608, 32>> \o min_text \o <<32, 1582, 1608, 1604, 1749, 1705>>
        \* date_time.py:300-309, hour_12, the number words and the period
        Spoken(minute, hour_24, explicit) ==
            Phrase(minute, IntToKurdish(IF hour_24 % 12 = 0 THEN 12 ELSE hour_24 % 12),
                   IntToKurdish(minute), explicit, GetTimePeriod(hour_24))
        \* date_time.py:292-300, the 24-hour clock
        Clock(minute, hour, is_pm, is_am, is_shew) ==
            Spoken(minute,
                   (IF is_pm THEN (IF hour >= 1 /\ hour < 12 THEN hour + 12 ELSE hour)
                    ELSE IF is_am THEN (IF hour = 12 THEN 0 ELSE hour)
                    ELSE hour) % 24,
                   TRUE)
        \* date_time.py:278-290, the suffix lists and the night marker
        Marked(minute, hour, night_am, s_upper, is_shew) ==
            Clock(minute, hour,
                  IF is_shew THEN ~night_am ELSE SuffixIn(s_upper, PmUpper),
                  IF is_shew THEN night_am ELSE SuffixIn(s_upper, AmUpper),
                  is_shew)
        \* date_time.py:269-272, s_clean without a leading Y
        Unlinked(s_clean) ==
            IF Len(s_clean) > 1 /\ Head(s_clean) \in LinkingY THEN Tail(s_clean) ELSE s_clean
        s_upper ==
            Upper(RemoveChars(Unlinked(RemoveChars(Strip(RemoveChars(suffix, { 46 })), { 32 })),
                              { 1600 }))
        NightAm(hour) == hour = 12 \/ (1 <= hour /\ hour <= 4)
        \* date_time.py:259-264, the carry of the minutes into the hour
        Carried(hour, minute) ==
            Marked(minute % 60, hour + (minute \div 60), NightAm(hour + (minute \div 60)), s_upper, Has(suffix, <<1588, 1749, 1608>> (* شەو *)))
        \* date_time.py:256-258, the fields of the text as integers
        Parsed(fields) ==
            IF \E k \in 1..Len(fields) : ~IsIntText(fields[k]) THEN tx
            ELSE Carried(ParseInt(fields[1]), IF Len(fields) > 1 THEN ParseInt(fields[2]) ELSE 0)
    IN  Parsed(Split(KeepChars(tx, TimeChars), { 58 }))

\* _convert_time with the night marker read against the hour as written.
ConvertTimeRawNight(tx, suffix) ==
    LET \* date_time.py:309-331, the output construction
        Phrase(minute, hour_text, min_text, explicit, label) ==
            IF explicit
            THEN IF minute = 0 THEN hour_text \o <<1740, 32>> \o label
                 ELSE IF minute = 30 THEN hour_text \o <<32, 1608, 32, 1606, 1740, 1608, 1740, 32>> \o label
                 ELSE hour_text \o <<32, 1608, 32>> \o min_text \o <<32, 1582, 1608, 1604, 1749, 1705, 1740, 32>> \o label
            ELSE IF minute = 0 THEN hour_text
            ELSE IF minute = 30 THEN hour_text \o <<32, 1608, 32, 1606, 1740, 1608>>
            ELSE hour_text \o <<32, 1608, 32>> \o min_text \o <<32, 1582, 1608, 1604, 1749, 1705>>
        \* date_time.py:300-309, hour_12, the number words and the period
        Spoken(minute, hour_24, explicit) ==
            Phrase(minute, IntToKurdish(IF hour_24 % 12 = 0 THEN 12 ELSE hour_24 % 12),
                   IntToKurdish(minute), explicit, GetTimePeriod(hour_24))
        \* date_time.py:292-300, the 24-hour clock
        Clock(minute, hour, is_pm, is_am, is_shew) ==
            Spoken(minute,
                   (IF is_pm THEN (IF hour >= 1 /\ hour < 12 THEN hour + 12 ELSE hour)
                    ELSE IF is_am THEN (IF hour = 12 THEN 0 ELSE hour)
                    ELSE hour) % 24,
                   is_pm \/ is_am \/ is_shew \/ hour > 12 \/ hour = 0)
        \* date_time.py:278-290, the suffix lists and the night marker
        Marked(minute, hour, night_am, s_upper, is_shew) ==
            Clock(minute, hour,
                  IF is_shew THEN ~night_am ELSE SuffixIn(s_upper, PmUpper),
                  IF is_shew THEN night_am ELSE SuffixIn(s_upper, AmUpper),
                  is_shew)
        \* date_time.py:269-272, s_clean without a leading Y
        Unlinked(s_clean) ==
            IF Len(s_clean) > 1 /\ Head(s_clean) \in LinkingY THEN Tail(s_clean) ELSE s_clean
        s_upper ==
            Upper(RemoveChars(Unlinked(RemoveChars(Strip(RemoveChars(suffix, { 46 })), { 32 })),
                              { 1600 }))
        NightAm(hour) == hour = 12 \/ (1 <= hour /\ hour <= 4)
        \* date_time.py:259-264, the carry of the minutes into the hour
        Carried(hour, minute) ==
            Marked(minute % 60, hour + (minute \div 60), NightAm(hour), s_upper, Has(suffix, <<1588, 1749, 1608>> (* شەو *)))
        \* date_time.py:256-258, the fields of the text as integers
        Parsed(fields) ==
            IF \E k \in 1..Len(fields) : ~IsIntText(fields[k]) THEN tx
            ELSE Carried(ParseInt(fields[1]), IF Len(fields) > 1 THEN ParseInt(fields[2]) ELSE 0)
    IN  Parsed(Split(KeepChars(tx, TimeChars), { 58 }))

\* _convert_time with the minute reduced and no carry into the hour.
ConvertTimeNoCarry(tx, suffix) ==
    LET \* date_time.py:309-331, the output construction
        Phrase(minute, hour_text, min_text, explicit, label) ==
            IF explicit
            THEN IF minute = 0 THEN hour_text \o <<1740, 32>> \o label
                 ELSE IF minute = 30 THEN hour_text \o <<32, 1608, 32, 1606, 1740, 1608, 1740, 32>> \o label
                 ELSE hour_text \o <<32, 1608, 32>> \o min_text \o <<32, 1582, 1608, 1604, 1749, 1705, 1740, 32>> \o label
            ELSE IF minute = 0 THEN hour_text
            ELSE IF minute = 30 THEN hour_text \o <<32, 1608, 32, 1606, 1740, 1608>>
            ELSE hour_text \o <<32, 1608, 32>> \o min_text \o <<32, 1582, 1608, 1604, 1749, 1705>>
        \* date_time.py:300-309, hour_12, the number words and the period
        Spoken(minute, hour_24, explicit) ==
            Phrase(minute, IntToKurdish(IF hour_24 % 12 = 0 THEN 12 ELSE hour_24 % 12),
                   IntToKurdish(minute), explicit, GetTimePeriod(hour_24))
        \* date_time.py:292-300, the 24-hour clock
        Clock(minute, hour, is_pm, is_am, is_shew) ==
            Spoken(minute,
                   (IF is_pm THEN (IF hour >= 1 /\ hour < 12 THEN hour + 12 ELSE hour)
                    ELSE IF is_am THEN (IF hour = 12 THEN 0 ELSE hour)
                    ELSE hour) % 24,
                   is_pm \/ is_am \/ is_shew \/ hour > 12 \/ hour = 0)
        \* date_time.py:278-290, the suffix lists and the night marker
        Marked(minute, hour, night_am, s_upper, is_shew) ==
            Clock(minute, hour,
                  IF is_shew THEN ~night_am ELSE SuffixIn(s_upper, PmUpper),
                  IF is_shew THEN night_am ELSE SuffixIn(s_upper, AmUpper),
                  is_shew)
        \* date_time.py:269-272, s_clean without a leading Y
        Unlinked(s_clean) ==
            IF Len(s_clean) > 1 /\ Head(s_clean) \in LinkingY THEN Tail(s_clean) ELSE s_clean
        s_upper ==
            Upper(RemoveChars(Unlinked(RemoveChars(Strip(RemoveChars(suffix, { 46 })), { 32 })),
                              { 1600 }))
        NightAm(hour) == hour = 12 \/ (1 <= hour /\ hour <= 4)
        \* date_time.py:259-264, the carry of the minutes into the hour
        Carried(hour, minute) ==
            Marked(minute % 60, hour, NightAm(hour), s_upper, Has(suffix, <<1588, 1749, 1608>> (* شەو *)))
        \* date_time.py:256-258, the fields of the text as integers
        Parsed(fields) ==
            IF \E k \in 1..Len(fields) : ~IsIntText(fields[k]) THEN tx
            ELSE Carried(ParseInt(fields[1]), IF Len(fields) > 1 THEN ParseInt(fields[2]) ELSE 0)
    IN  Parsed(Split(KeepChars(tx, TimeChars), { 58 }))

\* DateTimeNormalizer._convert_time
ConvertTime(tx, suffix) ==
    LET \* date_time.py:309-331, the output construction
        Phrase(minute, hour_text, min_text, explicit, label) ==
            IF explicit
            THEN IF minute = 0 THEN hour_text \o <<1740, 32>> \o label
                 ELSE IF minute = 30 THEN hour_text \o <<32, 1608, 32, 1606, 1740, 1608, 1740, 32>> \o label
                 ELSE hour_text \o <<32, 1608, 32>> \o min_text \o <<32, 1582, 1608, 1604, 1749, 1705, 1740, 32>> \o label
            ELSE IF minute = 0 THEN hour_text
            ELSE IF minute = 30 THEN hour_text \o <<32, 1608, 32, 1606, 1740, 1608>>
            ELSE hour_text \o <<32, 1608, 32>> \o min_text \o <<32, 1582, 1608, 1604, 1749, 1705>>
        \* date_time.py:300-309, hour_12, the number words and the period
        Spoken(minute, hour_24, explicit) ==
            Phrase(minute, IntToKurdish(IF hour_24 % 12 = 0 THEN 12 ELSE hour_24 % 12),
                   IntToKurdish(minute), explicit, GetTimePeriod(hour_24))
        \* date_time.py:292-300, the 24-hour clock
        Clock(minute, hour, is_pm, is_am, is_shew) ==
            Spoken(minute,
                   (IF is_pm THEN (IF hour >= 1 /\ hour < 12 THEN hour + 12 ELSE hour)
                    ELSE IF is_am THEN (IF hour = 12 THEN 0 ELSE hour)
                    ELSE hour) % 24,
                   is_pm \/ is_am \/ is_shew \/ hour > 12 \/ hour = 0)
        \* date_time.py:278-290, the suffix lists and the night marker
        Marked(minute, hour, night_am, s_upper, is_shew) ==
            Clock(minute, hour,
                  IF is_shew THEN ~night_am ELSE SuffixIn(s_upper, PmUpper),
                  IF is_shew THEN night_am ELSE SuffixIn(s_upper, AmUpper),
                  is_shew)
        \* date_time.py:269-272, s_clean without a leading Y
        Unlinked(s_clean) ==
            IF Len(s_clean) > 1 /\ Head(s_clean) \in LinkingY THEN Tail(s_clean) ELSE s_clean
        s_upper ==
            Upper(RemoveChars(Unlinked(RemoveChars(Strip(RemoveChars(suffix, { 46 })), { 32 })),
                              { 1600 }))
        NightAm(hour) == hour = 12 \/ (1 <= hour /\ hour <= 4)
        \* date_time.py:259-264, the carry of the minutes into the hour
        Carried(hour, minute) ==
            Marked(minute % 60, hour + (minute \div 60), NightAm(hour + (minute \div 60)), s_upper, Has(suffix, <<1588, 1749, 1608>> (* شەو *)))
        \* date_time.py:256-258, the fields of the text as integers
        Parsed(fields) ==
            IF \E k \in 1..Len(fields) : ~IsIntText(fields[k]) THEN tx
            ELSE Carried(ParseInt(fields[1]), IF Len(fields) > 1 THEN ParseInt(fields[2]) ELSE 0)
    IN  Parsed(Split(KeepChars(tx, TimeChars), { 58 }))

\* _append_suffix with the suffix always appended directly.
AppendSuffixDirect(tx, suffix) ==
    IF suffix = << >> THEN tx ELSE Strip(tx) \o suffix

\* DateTimeNormalizer._append_suffix
AppendSuffix(tx, suffix) ==
    LET needs_y(t) == /\ suffix \in { <<1749>> (* ە *), <<1749, 1705, 1749>> (* ەکە *), <<1749, 1705, 1575, 1606>> (* ەکان *) }
                      /\ \E k \in 1..Len(KURDISH_VOWELS) : EndsWith(t, KURDISH_VOWELS[k])
        Attach(t) ==
            IF needs_y(t) THEN (IF suffix = <<1749>> (* ە *) THEN t \o <<1740, 1749>> (* یە *) ELSE t \o <<1740>> (* ی *) \o suffix)
            ELSE t \o suffix
    IN  IF suffix = << >> THEN tx ELSE Attach(Strip(tx))

RECURSIVE JoinTexts(_)
\* " ".join([t.text for t in phrase_tokens if t.text])
JoinTexts(toks) ==
    IF toks = << >> THEN << >>
    ELSE LET Before(rest) ==
                 IF Head(toks).text = << >> THEN rest
                 ELSE IF rest = << >> THEN Head(toks).text
                 ELSE Head(toks).text \o <<32>> \o rest
         IN  Before(JoinTexts(Tail(toks)))

\* date_time.py:78-91, clean_phrase of the j tokens after index k
CleanPhrase(toks, k, j) ==
    LET Unlinked(c) == IF Len(c) > 1 /\ Head(c) \in LinkingY THEN Tail(c) ELSE c
        phrase == Strip(JoinTexts(SubSeq(toks, k + 2, k + 1 + j)))
    IN  RemoveChars(Unlinked(RemoveChars(phrase, { 32 })), { 1600, 8204 })

\* s_clean = s.replace(' ', '').upper() for every s of SUFFIX_TOKENS
SuffixClean == UpperSuffixes(SUFFIX_TOKENS)

\* date_time.py:93-117: the time suffix s at position n of SUFFIX_TOKENS
\* matches the phrase, with or without a grammatical suffix after it
SuffixMatches(clean_phrase, clean_phrase_upper, n) ==
    LET Valid(remainder) == remainder = << >> \/ remainder \in SUFFIXES_LIST
        Starts(s_clean) ==
            /\ StartsWith(clean_phrase_upper, s_clean)
            /\ Valid(From(clean_phrase, Len(s_clean)))
    IN  Starts(SuffixClean[n])

\* date_time.py:75-120 at lookahead j: the first matching suffix, 0 if none
FirstSuffix(toks, k, j) ==
    LET First(hits) ==
            IF k + j < Len(toks) /\ hits # {}
            THEN CHOOSE n \in hits : \A m \in hits : n <= m
            ELSE 0
        Hits(clean_phrase, clean_phrase_upper) ==
            { n \in 1..Len(SUFFIX_TOKENS) :
                SuffixMatches(clean_phrase, clean_phrase_upper, n) }
        Phrase(clean_phrase) == First(Hits(clean_phrase, Upper(clean_phrase)))
    IN  Phrase(CleanPhrase(toks, k, j))

\* the lookahead the loop of date_time.py:75 stops at, longest first; 0 if none
MatchedLookahead(toks, k) ==
    LET Longest(found) ==
            IF found = {} THEN 0 ELSE CHOOSE j \in found : \A m \in found : m <= j
    IN  Longest({ j \in 1..3 : FirstSuffix(toks, k, j) # 0 })

RECURSIVE PatternMatch(_, _)
\* re.match of one alternative of SIMPLE_SUFFIX_RE up to "$", IGNORECASE: a
\* space of the suffix is \s*, a dot any character but a line break
PatternMatch(pat, s) ==
    IF pat = << >> THEN s = << >> \/ s = << 10 >>
    ELSE IF Head(pat) = 32
    THEN \/ PatternMatch(Tail(pat), s)
         \/ (s # << >> /\ Head(s) \in PyWhitespace /\ PatternMatch(pat, Tail(s)))
    ELSE IF Head(pat) = 46
    THEN s # << >> /\ Head(s) # 10 /\ PatternMatch(Tail(pat), Tail(s))
    ELSE /\ s # << >>
         /\ LowerChar(Head(s)) = LowerChar(Head(pat))
         /\ PatternMatch(Tail(pat), Tail(s))

\* "\s*" and one alternative of SIMPLE_SUFFIX_RE, for every suffix
SuffixPatterns == [ n \in 1..Len(SUFFIX_TOKENS) |-> <<32>> \o SUFFIX_TOKENS[n] ]

\* SIMPLE_SUFFIX_RE.match(s)
SimpleSuffixMatch(s) ==
    \E n \in 1..Len(SUFFIX_TOKENS) :
        \/ PatternMatch(SuffixPatterns[n], s)
        \/ (s # << >> /\ Head(s) \in LinkingY /\ PatternMatch(SuffixPatterns[n], Tail(s)))

RECURSIVE Consume(_, _, _, _)
\* date_time.py:140-146 for the indices from..to of consumed_indices (0-based)
Consume(toks, k, from, to) ==
    IF from > to THEN toks
    ELSE Consume([toks EXCEPT ![k + 1].ws = @ \o toks[from + 1].ws,
                              ![from + 1].text = << >>],
                 k, from + 1, to)

\* The TIME branch with the consumed tokens blanked and their whitespace
\* dropped instead of folded onto the TIME token.
TimeBranchNoFold(toks, k) ==
    LET tok == toks[k + 1]
        \* date_time.py:148-156
        Write(eaten, converted_time, extra) ==
            [eaten EXCEPT ![k + 1] =
               [eaten[k + 1] EXCEPT
                  !.text = IF extra # << >> THEN AppendSuffix(converted_time, extra)
                           ELSE converted_time,
                  !.type = "WORD",
                  !.tags = @ \cup { "TIME" }]]
        \* date_time.py:131-148
        Convert(suffix_text, extra, last) ==
            Write([ m \in 1..Len(toks) |->
                    IF k + 1 < m /\ m <= last + 1
                    THEN [toks[m] EXCEPT !.text = << >>] ELSE toks[m] ],
                  ConvertTime(tok.text,
                              IF suffix_text # << >> THEN suffix_text
                              ELSE Strip(RemoveChars(tok.text, TimeChars))),
                  extra)
        \* date_time.py:110-128
        Found(j, n, fallback) ==
            Convert(IF j # 0 THEN SUFFIX_TOKENS[n]
                    ELSE IF fallback THEN toks[k + 2].text ELSE << >>,
                    IF j # 0 THEN From(CleanPhrase(toks, k, j), Len(SuffixClean[n]))
                    ELSE << >>,
                    IF j # 0 THEN k + j ELSE IF fallback THEN k + 1 ELSE k)
        \* date_time.py:75-124
        Lookahead(j) ==
            Found(j, FirstSuffix(toks, k, j),
                  j = 0 /\ GetNext(toks, k) # None /\ SimpleSuffixMatch(toks[k + 2].text))
    IN  Lookahead(MatchedLookahead(toks, k))

\* date_time.py:67-156, the TIME branch at index k
TimeBranch(toks, k) ==
    LET tok == toks[k + 1]
        \* date_time.py:148-156
        Write(eaten, converted_time, extra) ==
            [eaten EXCEPT ![k + 1] =
               [eaten[k + 1] EXCEPT
                  !.text = IF extra # << >> THEN AppendSuffix(converted_time, extra)
                           ELSE converted_time,
                  !.type = "WORD",
                  !.tags = @ \cup { "TIME" }]]
        \* date_time.py:131-148
        Convert(suffix_text, extra, last) ==
            Write(Consume(toks, k, k + 1, last),
                  ConvertTime(tok.text,
                              IF suffix_text # << >> THEN suffix_text
                              ELSE Strip(RemoveChars(tok.text, TimeChars))),
                  extra)
        \* date_time.py:110-128
        Found(j, n, fallback) ==
            Convert(IF j # 0 THEN SUFFIX_TOKENS[n]
                    ELSE IF fallback THEN toks[k + 2].text ELSE << >>,
                    IF j # 0 THEN From(CleanPhrase(toks, k, j), Len(SuffixClean[n]))
                    ELSE << >>,
                    IF j # 0 THEN k + j ELSE IF fallback THEN k + 1 ELSE k)
        \* date_time.py:75-124
        Lookahead(j) ==
            Found(j, FirstSuffix(toks, k, j),
                  j = 0 /\ GetNext(toks, k) # None /\ SimpleSuffixMatch(toks[k + 2].text))
    IN  Lookahead(MatchedLookahead(toks, k))

\* date_time.py:59-158, one iteration of the loop of process at index k
DateTimeIteration(toks, k) ==
    LET tok == toks[k + 1]
    IN  IF tok.type = "DATE"
        THEN [toks EXCEPT ![k + 1] = [tok EXCEPT !.text = ConvertDate(tok.text),
                                                 !.type = "WORD",
                                                 !.tags = @ \cup { "DATE" }]]
        ELSE IF tok.type = "TIME" THEN TimeBranch(toks, k)
        ELSE toks

RECURSIVE DateTimeFrom(_, _)
DateTimeFrom(toks, k) ==
    IF k >= Len(toks) THEN DropEmpty(toks)
    ELSE DateTimeFrom(DateTimeIteration(toks, k), k + 1)

\* process(tokens) under the configuration cfg
DateTimeProcess(cfg, toks) ==
    IF "date_time" \notin cfg THEN toks ELSE DateTimeFrom(toks, 0)

MaxDateTok == 3

\* date_time.py:55-58, the guard of process with the pass enabled
DateTimeBegin ==
    /\ pc = "date_start"
    /\ "date_time" \in config
    /\ i' = 0
    /\ pc' = "date_loop"
    /\ UNCHANGED << config, prio, modules, calls, cur, ran, text, tokens, input,
                    new_tokens, tech_indices, raised >>

\* date_time.py:55-56, if not self.config.enable_date_time: return tokens
DateTimeDisabled ==
    /\ pc = "date_start"
    /\ "date_time" \notin config
    /\ pc' = "date_done"
    /\ UNCHANGED << config, prio, modules, calls, cur, ran, text, tokens, input, i,
                    new_tokens, tech_indices, raised >>

\* One iteration of the loop that leaves the index where it is.
DateTimeStepStuck ==
    /\ pc = "date_loop"
    /\ i < Len(tokens)
    /\ tokens' = DateTimeIteration(tokens, i)
    /\ i' = i
    /\ UNCHANGED << config, prio, modules, calls, cur, ran, pc, text, input,
                    new_tokens, tech_indices, raised >>

\* date_time.py:59-158, one iteration of the loop of process
DateTimeStep ==
    /\ pc = "date_loop"
    /\ i < Len(tokens)
    /\ tokens' = DateTimeIteration(tokens, i)
    /\ i' = i + 1
    /\ UNCHANGED << config, prio, modules, calls, cur, ran, pc, text, input,
                    new_tokens, tech_indices, raised >>

\* date_time.py:161
DateTimeReturn ==
    /\ pc = "date_loop"
    /\ i >= Len(tokens)
    /\ tokens' = DropEmpty(tokens)
    /\ pc' = "date_done"
    /\ UNCHANGED << config, prio, modules, calls, cur, ran, text, input, i,
                    new_tokens, tech_indices, raised >>

\* Dates in both field orders, with two fields, without a four-digit field
\* and with a field that is no number; times with and without minutes and
\* with an empty minute; time suffixes, a grammatical suffix and a word.
DateTimeTokens ==
    { Token(tx, tx, "DATE", {}, << >>) :
        tx \in { A("2025/12/03"), A("03-12-2025"), A("2025/12"), A("12/03/25"), A("2025/1x/03") } }
    \cup { Token(tx, tx, "TIME", {}, << >>) : tx \in { A("12:30"), A("2:00"), A("12:") } }
    \cup { Token(tx, tx, "WORD", {}, << >>) : tx \in { A("PM"), K("beyany"), K("PMe"), K("e"), A("x") } }
    \cup { Token(A("PM"), A("PM"), "WORD", {}, A(" ")) }

DateTimeInit ==
    /\ pc = "date_start"
    /\ \E toks \in SeqsUpTo(DateTimeTokens, MaxDateTok) :
         \E c \in { {}, { "date_time" } } :
            /\ config = c
            /\ prio = SomePriorities
            /\ modules = Construct(c, prio)
            /\ calls = 1
            /\ cur = << >>
            /\ ran = << >>
            /\ text = << >>
            /\ tokens = toks
            /\ input = toks
            /\ i = 0
            /\ new_tokens = << >>
            /\ tech_indices = {}
            /\ raised = FALSE

DateTimeNext == DateTimeBegin \/ DateTimeDisabled \/ DateTimeStep \/ DateTimeReturn

DateTimeSpec == DateTimeInit /\ [][DateTimeNext]_vars

\* a DATE text that does not split into exactly 3 fields, has no 4-digit
\* first or last field, or has a non-integer field
UnparseableDate(tx) ==
    LET parts == Split(tx, { 47, 45, 46 })
    IN  \/ Len(parts) # 3
        \/ (Len(parts[1]) # 4 /\ Len(parts[3]) # 4)
        \/ \E k \in 1..3 : ~IsIntText(parts[k])

\* a TIME text whose hour or minute, read off its digits, is not an integer
UnparseableTime(tx) ==
    LET fields == Split(KeepChars(tx, TimeChars), { 58 })
    IN  \/ ~IsIntText(fields[1])
        \/ (Len(fields) > 1 /\ ~IsIntText(fields[2]))

\* the loop is at a DATE or TIME token whose text cannot be parsed
AtUnparseable ==
    /\ pc = "date_loop"
    /\ i < Len(tokens)
    /\ \/ (tokens[i + 1].type = "DATE" /\ UnparseableDate(tokens[i + 1].text))
       \/ (tokens[i + 1].type = "TIME" /\ UnparseableTime(tokens[i + 1].text))

\* C8: when the text of a DATE or TIME token cannot be parsed, process leaves
\* the affected tokens unmodified: the token's text, type and tags are as
\* before the pass, and no following token is consumed.
C8_UnparseableUntouched ==
    [][ AtUnparseable =>
          /\ tokens'[i + 1].text = tokens[i + 1].text
          /\ tokens'[i + 1].type = tokens[i + 1].type
          /\ tokens'[i + 1].tags = tokens[i + 1].tags
          /\ \A j \in (i + 2)..Len(tokens) : tokens'[j].text = tokens[j].text ]_vars


\* ---------------------------------------------------------------------------
\* MathNormalizer.process on expressions: numbers, the four operators, the
\* equals sign, an opening bracket and a comma, separated by single spaces.
\* ---------------------------------------------------------------------------

MaxExprTok == 5

ChainOperators == { A("+"), A("-"), A("*"), A("/"), A("=") }

ExprTokens ==
    { Token(tx, tx, "NUMBER", {}, A(" ")) : tx \in { A("2"), A("3"), A("5") } }
    \cup { Token(tx, tx, "SYMBOL", {}, A(" ")) : tx \in ChainOperators \cup { A("("), A(",") } }

ExprInit ==
    /\ pc = "math_loop"
    /\ \E toks \in SeqsUpTo(ExprTokens, MaxExprTok) : PassInit(toks)

ExprSpec == ExprInit /\ [][MathNext]_vars

\* The token list is an operator chain: numbers at the odd places, operators
\* at the even places, a number at each end.
IsChain(toks) ==
    /\ Len(toks) >= 3
    /\ Len(toks) % 2 = 1
    /\ \A j \in 1..Len(toks) :
          IF j % 2 = 1 THEN toks[j].type = "NUMBER"
          ELSE toks[j].type = "SYMBOL" /\ toks[j].text \in ChainOperators

\* C11: when process has returned from an operator chain in which every
\* operator has a number on each side, no token of the output still has the
\* text of an operator symbol (+, -, *, /, =).
C11_ChainFullyConverted ==
    (pc = "math_done" /\ IsChain(input))
        => \A j \in 1..Len(tokens) : tokens[j].text \notin ChainOperators

\* The token at 0-based k of the input is a "/" between two NUMBER tokens and
\* another operator symbol stands next to one of those numbers.
SlashInChain(toks, k) ==
    /\ k >= 1
    /\ k + 2 <= Len(toks)
    /\ toks[k + 1].type = "SYMBOL" /\ toks[k + 1].text = A("/")
    /\ toks[k].type = "NUMBER"
    /\ toks[k + 2].type = "NUMBER"
    /\ \/ k >= 2 /\ toks[k - 1].type = "SYMBOL" /\ toks[k - 1].text \in ChainOperators
       \/ k + 3 <= Len(toks) /\ toks[k + 3].type = "SYMBOL"
                             /\ toks[k + 3].text \in ChainOperators

\* C12: a loop iteration at a "/" that stands between two NUMBER tokens inside
\* an operator chain turns that token into the division word; it is not
\* merged into a fraction.
C12_SlashInChainIsDivision ==
    [][ (pc = "math_loop" /\ i < Len(tokens) /\ SlashInChain(input, i))
            => (tokens'[i + 1].text = K("dabe$") /\ tokens'[i + 1].type = "WORD") ]_vars

\* ---------------------------------------------------------------------------
\* DateTimeNormalizer.process on one DATE token of three number fields, or on
\* one TIME token "hour:minute", alone or followed by a word.
\* ---------------------------------------------------------------------------

MaxField == 14

MaxHour == 13

\* day and month fields, one of them with a leading zero
FieldTexts == { Str(n) : n \in 0..MaxField } \cup { A("03") }

YearTexts == { A("1999"), A("2025") }

DateTexts ==
    { p0 \o s \o p1 \o s \o p2 :
        p0 \in FieldTexts \cup YearTexts, p1 \in FieldTexts,
        p2 \in FieldTexts \cup YearTexts, s \in { A("/"), A("-") } }

MinuteTexts == { A("00"), A("05"), A("30"), A("59"), A("60"), A("90") }

TimeTexts == { Str(h) \o A(":") \o m : h \in 0..MaxHour, m \in MinuteTexts }

\* the words that may follow the time: two period markers and a plain word
FollowerTexts == { A("PM"), K("beyany"), A("x") }

DateTextLists ==
    { << Token(tx, tx, "DATE", {}, << >>) >> : tx \in DateTexts }
    \cup { << Token(tx, tx, "TIME", {}, << >>) >> : tx \in TimeTexts }
    \cup { << Token(tx, tx, "TIME", {}, A(" ")), Token(w, w, "WORD", {}, << >>) >> :
             tx \in TimeTexts, w \in FollowerTexts }

DateTextInit ==
    /\ pc = "date_start"
    /\ \E toks \in DateTextLists :
          /\ config = { "date_time" }
          /\ prio = SomePriorities
          /\ modules = Construct(config, prio)
          /\ calls = 1
          /\ cur = << >>
          /\ ran = << >>
          /\ text = << >>
          /\ tokens = toks
          /\ input = toks
          /\ i = 0
          /\ new_tokens = << >>
          /\ tech_indices = {}
          /\ raised = FALSE

DateTextNext == DateTimeBegin \/ DateTimeStep \/ DateTimeReturn

DateTextSpec == DateTextInit /\ [][DateTextNext]_vars

\* the fields of the DATE text that was handed to process
DateFields == Split(input[1].text, { 47, 45, 46 })

\* process has returned from a single DATE token of three fields
DateDone ==
    /\ pc = "date_done"
    /\ Len(input) = 1
    /\ input[1].type = "DATE"
    /\ Len(DateFields) = 3

\* "{day}y {month name}y sa_y {year}" for a month from 1 to 12
DatePhrase(day, month, year) ==
    IntToKurdish(day) \o K("y ") \o KURDISH_MONTHS[month] \o K("y sa_y ") \o IntToKurdish(year)

\* the same with the numbered month "mangy {month}" outside 1..12
DatePhraseAnyMonth(day, month, year) ==
    IF month \in 1..12 THEN DatePhrase(day, month, year)
    ELSE IntToKurdish(day) \o K("y mangy ") \o IntToKurdish(month)
         \o K("y sa_y ") \o IntToKurdish(year)

\* The statement as claimed, for every value of the second field.
C13_Original ==
    (DateDone /\ Len(DateFields[1]) = 4)
        => tokens[1].text = DatePhraseAnyMonth(ParseInt(DateFields[3]),
                                               ParseInt(DateFields[2]),
                                               ParseInt(DateFields[1]))

\* C13: for a DATE text of three number fields whose first field has four
\* digits and whose second field has a value from 1 to 12, the first field is
\* the year, the second the month and the third the day, and the text becomes
\* "{day}y {month}y sa_y {year}".
C13_YearFirst ==
    (DateDone /\ Len(DateFields[1]) = 4 /\ ParseInt(DateFields[2]) \in 1..12)
        => tokens[1].text = DatePhrase(ParseInt(DateFields[3]),
                                       ParseInt(DateFields[2]),
                                       ParseInt(DateFields[1]))

\* A year-first date with a month from 1 to 12 and a last field that could
\* itself be read as a year has been converted.
C13_Witness ==
    /\ DateDone
    /\ Len(DateFields[1]) = 4
    /\ ParseInt(DateFields[2]) \in 1..12
    /\ Len(DateFields[3]) = 4
    /\ tokens[1].text # input[1].text

\* process has returned from a DATE of three fields that is not read
\* year-first and whose last field has four digits
LastFieldYear ==
    /\ DateDone
    /\ ~(Len(DateFields[1]) = 4 /\ ParseInt(DateFields[2]) \in 1..12)
    /\ Len(DateFields[3]) = 4

\* C14: when the first field is not the year and the last field has four
\* digits, the last field is the year; of the two other fields the one above
\* 12 is the day and the other the month, and when neither is above 12 the
\* first is the day and the second the month, so the month is above 12 only
\* when both fields are.
C14_YearLast ==
    LastFieldYear =>
        LET v1 == ParseInt(DateFields[1])
            v2 == ParseInt(DateFields[2])
            year == ParseInt(DateFields[3])
        IN  /\ EndsWith(tokens[1].text, K("y sa_y ") \o IntToKurdish(year))
            /\ (v1 > 12 /\ v2 <= 12) => tokens[1].text = DatePhraseAnyMonth(v1, v2, year)
            /\ (v2 > 12 /\ v1 <= 12) => tokens[1].text = DatePhraseAnyMonth(v2, v1, year)
            /\ (v1 <= 12 /\ v2 <= 12) => tokens[1].text = DatePhraseAnyMonth(v1, v2, year)
            /\ (v1 <= 12 \/ v2 <= 12) => ~Has(tokens[1].text, K("mangy"))
                                         \/ v1 = 0 \/ v2 = 0

\* A date whose second field is above 12 and whose first is not has been
\* converted with the second field as the day.
C14_Witness ==
    /\ LastFieldYear
    /\ ParseInt(DateFields[2]) > 12
    /\ ParseInt(DateFields[1]) \in 1..12
    /\ tokens[1].text = DatePhrase(ParseInt(DateFields[2]), ParseInt(DateFields[1]),
                                   ParseInt(DateFields[3]))

\* the hour and minute fields of the TIME text that was handed to process
TimeFields == Split(input[1].text, { 58 })

\* the hour after the carry of the minutes, and the minutes left
CarriedHour == ParseInt(TimeFields[1]) + (ParseInt(TimeFields[2]) \div 60)

CarriedMinute == ParseInt(TimeFields[2]) % 60

\* process has returned from a TIME of digits and a colon that stood alone
\* or before a word that is no period marker
UnmarkedTimeDone ==
    /\ pc = "date_done"
    /\ input[1].type = "TIME"
    /\ AllIn(input[1].text, TimeChars)
    /\ (Len(input) = 1 \/ input[2].text = A("x"))

\* the day-period words of _get_time_period
PeriodWords ==
    { K("nywe$ew"), K("$ew"), K("berebeyan"), K("beyany"), K("pu$ nyweqo"), K("nyweqo"),
      K("dway nyweqo"), K("'uware") }

\* the hour words alone, "{hour} w nyw", or "{hour} w {minute} xwlek"
PlainTimePhrase(hour, minute) ==
    IF minute = 0 THEN IntToKurdish(hour)
    ELSE IF minute = 30 THEN IntToKurdish(hour) \o K(" w nyw")
    ELSE IntToKurdish(hour) \o K(" w ") \o IntToKurdish(minute) \o K(" xwlek")

\* the hour as it is spoken on the 12-hour clock
SpokenHour(hour) == IF hour % 12 = 0 THEN 12 ELSE hour % 12

\* The statement as claimed, for every hour from 0 to 12.
C15_Original ==
    (UnmarkedTimeDone /\ CarriedHour \in 0..12)
        => /\ tokens[1].text = PlainTimePhrase(SpokenHour(CarriedHour), CarriedMinute)
           /\ \A w \in PeriodWords : ~Has(tokens[1].text, w)

\* C15: for a TIME with no period marker whose hour after the minute carry
\* is from 1 to 12, the phrase has no day-period word: it is the hour words
\* alone, "{hour} w nyw", or "{hour} w {minute} xwlek".
C15_NoPeriodWord ==
    (UnmarkedTimeDone /\ CarriedHour \in 1..12)
        => /\ tokens[1].text = PlainTimePhrase(CarriedHour, CarriedMinute)
           /\ \A w \in PeriodWords : ~Has(tokens[1].text, w)

\* An unmarked time whose minutes carried into an hour from 1 to 12 has been
\* rendered with the minutes that were left.
C15_Witness ==
    /\ UnmarkedTimeDone
    /\ ParseInt(TimeFields[2]) >= 60
    /\ CarriedHour \in 1..12
    /\ CarriedMinute = 30
    /\ tokens[1].text = IntToKurdish(CarriedHour) \o K(" w nyw")

\* C16: process rewrites the tokens it is given in place: when it has
\* returned, every input TECHNICAL token that starts with "#" has a text
\* containing the hashtag word, every input TECHNICAL token that starts with
\* "@" has a text containing the at word, and every input WORD of letters and
\* digits mixed has its text spelled out.
C16_RewritesInPlace ==
    pc = "tech_done" =>
        \A j \in 1..Len(input) :
            /\ (input[j].type = "TECHNICAL" /\ StartsWith(input[j].text, A("#")))
                  => Has(tokens[j].text, HashtagWord)
            /\ (input[j].type = "TECHNICAL" /\ StartsWith(input[j].text, A("@")))
                  => Has(tokens[j].text, AtWord)
            /\ (input[j].type = "WORD" /\ AlphanumericFullmatch(input[j].text))
                  => tokens[j].text = SpellOut(input[j].text)
\* ---------------------------------------------------------------------------
\* Tokenizer.tokenize / Tokenizer.detokenize on text of letters, symbols and
\* whitespace (fallback WORD and SYMBOL lexing; spec 4.1, test_tokenizer.py).
\* ---------------------------------------------------------------------------

MaxTextLen == 5

\* "a", "b", "!", " " and "\n"
LexAlphabet == { 97, 98, 33, 32, 10 }

LexTexts(n) == SeqsUpTo(LexAlphabet, n)

LexInit ==
    /\ pc = "lex_start"
    /\ config = {}
    /\ prio = SomePriorities
    /\ modules = Construct(config, prio)
    /\ calls = 1
    /\ ran = << >>
    /\ \E s \in LexTexts(MaxTextLen) : text = s /\ cur = s
    /\ tokens = << >>
    /\ input = << >>
    /\ i = 0
    /\ new_tokens = << >>
    /\ tech_indices = {}
    /\ raised = FALSE

\* pipeline.py:92, tokens = self.tokenizer.tokenize(text)
LexTokenize ==
    /\ pc = "lex_start"
    /\ tokens' = Tokenize(text)
    /\ input' = tokens'
    /\ pc' = "lexed"
    /\ UNCHANGED << config, prio, modules, calls, cur, ran, text, i, new_tokens,
                    tech_indices, raised >>

\* pipeline.py:100, final_text = self.tokenizer.detokenize(tokens)
LexDetokenize ==
    /\ pc = "lexed"
    /\ cur' = Detokenize(tokens)
    /\ pc' = "lex_done"
    /\ UNCHANGED << config, prio, modules, calls, ran, text, tokens, input, i,
                    new_tokens, tech_indices, raised >>

LexNext == LexTokenize \/ LexDetokenize

LexSpec == LexInit /\ [][LexNext]_vars

PassesInit == TechInit \/ MathInit \/ DateTimeInit \/ SpacingInit

PassesNext == TechNext \/ MathNext \/ DateTimeNext \/ SpacingNext

PassesSpec == PassesInit /\ [][PassesNext]_vars

\* original_text and is_converted of every token, in order
Originals(toks) == [j \in 1..Len(toks) |-> << toks[j].orig, toks[j].conv >>]

RECURSIVE IsSubseq(_, _)
\* a is b with some elements left out
IsSubseq(a, b) ==
    IF a = << >> THEN TRUE
    ELSE IF b = << >> THEN FALSE
    ELSE IF Head(a) = Head(b) THEN IsSubseq(Tail(a), Tail(b))
    ELSE IsSubseq(a, Tail(b))

\* C18: original_text is immutable: at every point of a pass of the
\* technical, math, date/time or spacing normalizer, every token that was
\* handed to the pass still has the original_text (and the is_converted
\* flag) it came with; tokens are only dropped, never re-sourced.
C18_OriginalTextImmutable ==
    /\ Len(tokens) <= Len(input)
    /\ Len(tokens) = Len(input)
          => \A j \in 1..Len(tokens) :
                tokens[j].orig = input[j].orig /\ tokens[j].conv = input[j].conv
    /\ IsSubseq(Originals(tokens), Originals(input))

\* A pass has returned after rewriting the text and the type of a token it
\* was given, whose original_text still is the source text.
C18_Witness ==
    /\ pc \in { "tech_done", "math_done", "date_done" }
    /\ Len(tokens) = Len(input)
    /\ \E j \in 1..Len(tokens) :
          /\ tokens[j].text # input[j].text
          /\ tokens[j].type # input[j].type
          /\ tokens[j].tags # input[j].tags
          /\ tokens[j].orig = input[j].orig
          /\ tokens[j].orig # tokens[j].text

\* The token at 0-based k of the input is a bare minus sign between two
\* NUMBER tokens.
MinusBetweenNumbers(toks, k) ==
    /\ k >= 1
    /\ k + 2 <= Len(toks)
    /\ toks[k + 1].type = "SYMBOL" /\ toks[k + 1].text \in { A("-"), << 8722 >> }
    /\ toks[k].type = "NUMBER"
    /\ toks[k + 2].type = "NUMBER"

\* An active math symbol or term of the input stands two places before or
\* two places after 0-based k.
ActiveMathNearby(toks, k) ==
    \/ k >= 2 /\ IsActiveMath(toks[k - 1])
    \/ k + 3 <= Len(toks) /\ IsActiveMath(toks[k + 3])

\* C19: a loop iteration at a bare minus sign between two numbers writes the
\* range word when no active math symbol or term of the input stands two
\* places before or after it, and the subtraction word when one does, also
\* when that is an operator before it in the same expression.
C19_RangeOnlyWhenIsolated ==
    [][ (pc = "math_loop" /\ i < Len(tokens) /\ MinusBetweenNumbers(input, i))
            => tokens'[i + 1].text = (IF ActiveMathNearby(input, i) THEN K("kem") ELSE K("bo")) ]_vars

\* The token at 0-based k of the input is a sign followed by a number.
SignBeforeNumber(toks, k) ==
    /\ k + 2 <= Len(toks)
    /\ toks[k + 1].type = "SYMBOL" /\ toks[k + 1].text \in { A("-"), << 8722 >>, A("+") }
    /\ toks[k + 2].type = "NUMBER"

\* Nothing precedes 0-based k in the input, or what precedes it is an
\* operator symbol, an opening bracket or a comma.
UnaryPosition(toks, k) ==
    \/ k = 0
    \/ /\ toks[k].type = "SYMBOL"
       /\ toks[k].text \in ChainOperators \cup { A("("), A("["), A("{"), A(",") }

\* C20: a loop iteration at a sign that is followed by a number and preceded
\* by the start of the expression, an operator symbol, an opening bracket or
\* a comma writes the negation word for "-" and the positive word for "+";
\* at a "-" preceded by a number it writes a binary word (subtraction, or the
\* range word of the isolated case) and never the negation word.
C20_UnarySign ==
    [][ (pc = "math_loop" /\ i < Len(tokens) /\ SignBeforeNumber(input, i))
            => /\ UnaryPosition(input, i)
                    => tokens'[i + 1].text = (IF input[i + 1].text = A("+") THEN K("mwjeb")
                                              ELSE K("salb"))
               /\ (i >= 1 /\ input[i].type = "NUMBER" /\ input[i + 1].text # A("+"))
                    => tokens'[i + 1].text \in { K("kem"), K("bo") } ]_vars

\* ---------------------------------------------------------------------------
\* MathNormalizer.process: the slash between units, brackets.
\* ---------------------------------------------------------------------------

\* the token carries a unit tag
HasUnitTag(tok) == "IS_UNIT" \in tok.tags \/ "UNIT_PROCESSED" \in tok.tags

\* The loop is at a division sign that has a token on each side.
AtInnerSlash ==
    /\ pc = "math_loop"
    /\ i >= 1
    /\ i + 2 <= Len(tokens)
    /\ tokens[i + 1].text \in { A("/"), << 247 >> }

MaxUnitTok == 5

\* Token lists of the number 2 under either unit tag, a number without a
\* tag, a unit word, the slash and the division sign.
UnitTokens ==
    { Token(<<50>>, <<50>>, "NUMBER", { tag }, << >>) : tag \in { "IS_UNIT", "UNIT_PROCESSED" } }
    \cup { Token(<<52>>, <<52>>, "NUMBER", {}, << >>) }
    \cup { Token(<<104>>, <<104>>, "WORD", { "IS_UNIT" }, << >>) }
    \cup { Token(tx, tx, "SYMBOL", {}, << >>) : tx \in { <<47>>, << 247 >> } }

UnitInit ==
    /\ pc = "math_loop"
    /\ \E toks \in SeqsUpTo(UnitTokens, MaxUnitTok) : PassInit(toks)

UnitSpec == UnitInit /\ [][MathNext]_vars

\* the token at position p of the list handed in is a division sign
SlashAt(p) == input[p].text \in { <<47>>, << 247 >> }

\* the positions of the division signs with a unit tag on the previous or
\* on the next token
EitherUnitSlashes ==
    { p \in 1..Len(input) :
        /\ SlashAt(p)
        /\ \/ (p > 1 /\ HasUnitTag(input[p - 1]))
           \/ (p < Len(input) /\ HasUnitTag(input[p + 1])) }

\* the positions of the division signs with a unit tag on the previous and
\* on the next token
BothUnitSlashes ==
    { p \in 2..(Len(input) - 1) :
        SlashAt(p) /\ HasUnitTag(input[p - 1]) /\ HasUnitTag(input[p + 1]) }

\* the token at position q has the text and the type it was handed in with
AsHandedIn(toks, q) == toks[q].text = input[q].text /\ toks[q].type = input[q].type

\* the place in the returned list of the token at position p of the list the
\* loop leaves: the tokens up to p that have a text
PlaceAfterReturn(toks, p) == Cardinality({ m \in 1..p : toks[m].text # << >> })

\* The statement as claimed: with a unit tag on either neighbour the sign
\* and both neighbours go through the pass with their text and type.
C21_Original ==
    [][ pc' = "math_loop" =>
          \A p \in EitherUnitSlashes :
             \A q \in { p - 1, p, p + 1 } \cap (1..Len(input)) : AsHandedIn(tokens', q) ]_vars

\* C21: a "/" (or the division sign) whose previous and next tokens both
\* carry a unit tag (IS_UNIT or UNIT_PROCESSED) is left untouched: the
\* iteration that visits it changes no token and moves on by one, so it
\* merges or consumes neither neighbour, and the sign has its text and type
\* throughout the pass and in the list the pass returns.
C21_UnitSlashUntouched ==
    [][ /\ (AtInnerSlash /\ HasUnitTag(tokens[i]) /\ HasUnitTag(tokens[i + 2]))
            => (tokens' = tokens /\ i' = i + 1)
        /\ \A p \in BothUnitSlashes :
              /\ pc' = "math_loop" => AsHandedIn(tokens', p)
              /\ (pc = "math_loop" /\ pc' = "math_done")
                    => /\ tokens'[PlaceAfterReturn(tokens, p)].text = input[p].text
                       /\ tokens'[PlaceAfterReturn(tokens, p)].type = input[p].type ]_vars

\* The pass has returned a list that began with a number tagged
\* UNIT_PROCESSED, the division sign and a number tagged IS_UNIT: the sign
\* is in its place, and a slash further on has merged its neighbours.
C21_Witness ==
    /\ pc = "math_done"
    /\ Len(input) >= 5
    /\ "UNIT_PROCESSED" \in input[1].tags /\ input[1].type = "NUMBER"
    /\ input[2].text = << 247 >>
    /\ "IS_UNIT" \in input[3].tags /\ input[3].type = "NUMBER"
    /\ input[4].text = <<47>>
    /\ Len(tokens) = 3
    /\ tokens[1] = input[1]
    /\ tokens[2] = input[2]
    /\ tokens[3].text # input[3].text

\* The loop is at a bracket glyph.
AtBracket ==
    /\ pc = "math_loop"
    /\ i < Len(tokens)
    /\ tokens[i + 1].type = "SYMBOL"
    /\ tokens[i + 1].text \in MATH_BRACKETS

\* The previous or the next token confirms a mathematical expression: the
\* bracket opens the list or follows an opening bracket, "=", "," or an
\* operator symbol, a closing bracket or a mathy token, or it precedes a
\* mathy token, an opening bracket or a function name.
BracketInContext ==
    LET prev == GetPrev(tokens, i)
        next_t == GetNext(tokens, i)
    IN  \/ prev = None
        \/ prev.text \in { A("("), A("["), A("{"), A("="), A(","), A(")"), A("]") }
        \/ prev.text \in Keys(MATH_SYMBOLS)
        \/ IsMathy(prev)
        \/ (next_t # None /\ (IsMathy(next_t) \/ next_t.text \in { A("("), A("["), A("sin"), A("cos") }))

\* The statement as claimed: the text of a bracket in context becomes a
\* spoken word.
C22_Original ==
    [][ AtBracket =>
          IF BracketInContext
          THEN tokens'[i + 1].text \notin MATH_BRACKETS /\ tokens'[i + 1].type = "WORD"
          ELSE tokens'[i + 1] = tokens[i + 1] ]_vars

\* C22: a loop iteration at a bracket glyph whose previous or next token
\* confirms an active mathematical expression makes the bracket a WORD token
\* followed by one space and keeps its text; at a bracket without such
\* context it leaves the text, type and whitespace of the bracket as they
\* are.
C22_BracketRetyped ==
    [][ AtBracket =>
          IF BracketInContext
          THEN /\ tokens'[i + 1].text = tokens[i + 1].text
               /\ tokens'[i + 1].type = "WORD"
               /\ tokens'[i + 1].ws = A(" ")
          ELSE tokens'[i + 1] = tokens[i + 1] ]_vars

\* The loop has passed two opening brackets: one that came without
\* whitespace is a WORD followed by a space now, with its text kept, and one
\* that had no context is as it was handed in.
C22_Witness ==
    /\ pc = "math_loop"
    /\ i >= 2
    /\ Len(tokens) = Len(input)
    /\ \E j \in 1..i :
          /\ input[j].text = A("(") /\ input[j].type = "SYMBOL" /\ input[j].ws = << >>
          /\ tokens[j].text = A("(") /\ tokens[j].type = "WORD" /\ tokens[j].ws = A(" ")
    /\ \E j \in 1..i : input[j].text = A("(") /\ tokens[j] = input[j]

\* ---------------------------------------------------------------------------
\* DateTimeNormalizer.process on a TIME token followed by up to three words:
\* a marker, the two halves of a two-word marker (the first half alone is no
\* marker), a grammatical suffix and a word shaped like the dotted marker
\* "A.M.".
\* ---------------------------------------------------------------------------

MaxFollow == 3

AbsorbWords == { A("PM"), K("pu$"), K("nyweqo"), K("e"), A("AxMy") }

AbsorbTokens == { Token(w, w, "WORD", {}, s) : w \in AbsorbWords, s \in { << >>, A(" ") } }

AbsorbLists ==
    { << Token(A("2:00"), A("2:00"), "TIME", {}, s) >> \o rest :
        s \in { << >>, A(" ") }, rest \in SeqsUpTo(AbsorbTokens, MaxFollow) }

AbsorbInit ==
    /\ pc = "date_start"
    /\ \E toks \in AbsorbLists :
          /\ config = { "date_time" }
          /\ prio = SomePriorities
          /\ modules = Construct(config, prio)
          /\ calls = 1
          /\ cur = << >>
          /\ ran = << >>
          /\ text = << >>
          /\ tokens = toks
          /\ input = toks
          /\ i = 0
          /\ new_tokens = << >>
          /\ tech_indices = {}
          /\ raised = FALSE

AbsorbSpec == AbsorbInit /\ [][DateTextNext]_vars

\* The loop is at a TIME token.
AtTime ==
    /\ pc = "date_loop"
    /\ i < Len(tokens)
    /\ tokens[i + 1].type = "TIME"

\* The w tokens after the TIME token form a marker phrase: stripped of its
\* spaces, a leading linking letter, tatweel and zero-width joiner, the
\* phrase starts with a known marker and what remains after the marker is
\* empty or an entry of the grammatical-suffix table.
MarkerPhrase(w) == FirstSuffix(tokens, i, w) # 0

\* C23: a loop iteration at a TIME token consumes a following token only as
\* part of a window of the next 1 to 3 tokens that forms a marker phrase; a
\* following token outside such a phrase, such as a word that only has the
\* shape of a dotted marker, is not consumed.
C23_ConsumesOnlyMarkerPhrase ==
    [][ AtTime =>
          \A j \in 1..(Len(tokens) - i - 1) :
              (tokens[i + 1 + j].text # << >> /\ tokens'[i + 1 + j].text = << >>)
                  => \E w \in j..3 : MarkerPhrase(w) ]_vars

RECURSIVE FoldedWhitespace(_, _, _)
\* The whitespace_after of the tokens from position j on (1-based) that are
\* consumed between the lists old and new, in list order.
FoldedWhitespace(old, new, j) ==
    IF j > Len(old) THEN << >>
    ELSE (IF old[j].text # << >> /\ new[j].text = << >> THEN old[j].ws ELSE << >>)
             \o FoldedWhitespace(old, new, j + 1)

\* C24: a loop iteration at a TIME token leaves the TIME token with its
\* previous whitespace_after followed by the whitespace_after of the tokens
\* it consumes, in order, and every other token with its whitespace_after;
\* the list the pass returns holds, in order, exactly the tokens that were
\* not consumed.
C24_WhitespaceFolded ==
    [][ /\ AtTime =>
           /\ tokens'[i + 1].ws =
                 tokens[i + 1].ws \o FoldedWhitespace(tokens, tokens', 1)
           /\ \A j \in 1..Len(tokens) :
                 j # i + 1 => tokens'[j].ws = tokens[j].ws
        /\ (pc = "date_loop" /\ pc' = "date_done") =>
           /\ \A j \in 1..Len(tokens') : tokens'[j].text # << >>
           /\ tokens' = SelectSeq(tokens, LAMBDA t : t.text # << >>) ]_vars

\* The pass has returned a list two tokens shorter than its input, whose
\* TIME token carries its own space and the spaces of both consumed tokens.
C24_Witness ==
    /\ pc = "date_done"
    /\ Len(input) >= 3
    /\ Len(tokens) = Len(input) - 2
    /\ input[1].ws = A(" ") /\ input[2].ws = A(" ") /\ input[3].ws = A(" ")
    /\ tokens[1].ws = A("   ")

\* ---------------------------------------------------------------------------
\* DateTimeNormalizer.process on one TIME "h:mm", alone or followed by a
\* period marker (PM, AM, the night marker) and, after PM or AM, by a
\* grammatical suffix; the hours pass 24 and the minutes pass 60.
\* ---------------------------------------------------------------------------

MaxClockHour == 25

ClockMinutes == { A("00"), A("07"), A("30"), A("60"), A("95") }

ClockTexts == { Str(h) \o A(":") \o m : h \in 0..MaxClockHour, m \in ClockMinutes }

ClockFollowers ==
    { << >>, << A("PM") >>, << A("AM") >>, << K("$ew") >> }
        \cup { << m, s >> : m \in { A("PM"), A("AM") }, s \in SUFFIXES_LIST }

ClockList(tx, words) ==
    << Token(tx, tx, "TIME", {}, A(" ")) >>
        \o [ k \in 1..Len(words) |-> Token(words[k], words[k], "WORD", {}, A(" ")) ]

ClockInit ==
    /\ pc = "date_start"
    /\ \E tx \in ClockTexts, words \in ClockFollowers :
          /\ config = { "date_time" }
          /\ prio = SomePriorities
          /\ modules = Construct(config, prio)
          /\ calls = 1
          /\ cur = << >>
          /\ ran = << >>
          /\ text = << >>
          /\ tokens = ClockList(tx, words)
          /\ input = ClockList(tx, words)
          /\ i = 0
          /\ new_tokens = << >>
          /\ tech_indices = {}
          /\ raised = FALSE

ClockSpec == ClockInit /\ [][DateTextNext]_vars

\* the hour as written
RawHour == ParseInt(TimeFields[1])

\* process has returned from a TIME followed by the one word w
MarkedTimeDone(w) ==
    /\ pc = "date_done"
    /\ input[1].type = "TIME"
    /\ Len(input) = 2
    /\ input[2].text = w

\* "{hour}y {label}", "{hour} w nywy {label}" or
\* "{hour} w {minute} xwleky {label}" for a 24-hour value
PeriodTimePhrase(hour_24, minute) ==
    LET hour_text == IntToKurdish(SpokenHour(hour_24))
        label == GetTimePeriod(hour_24)
    IN  IF minute = 0 THEN hour_text \o K("y ") \o label
        ELSE IF minute = 30 THEN hour_text \o K(" w nywy ") \o label
        ELSE hour_text \o K(" w ") \o IntToKurdish(minute) \o K(" xwleky ") \o label

\* The 24-hour value of a night time whose hour after the carry is hour,
\* when the hour decider is read as AM for 12 and 1..4 and as PM otherwise.
NightHour24(decider, hour) ==
    IF decider = 12 \/ (1 <= decider /\ decider <= 4)
    THEN (IF hour = 12 THEN 0 ELSE hour) % 24
    ELSE (IF 1 <= hour /\ hour < 12 THEN hour + 12 ELSE hour) % 24

\* The statement as claimed: the hour as written decides.
C25_Original ==
    MarkedTimeDone(K("$ew"))
        => /\ Len(tokens) = 1
           /\ tokens[1].text =
                 PeriodTimePhrase(NightHour24(RawHour, CarriedHour), CarriedMinute)

\* C25: for a TIME with the night marker, the hour after the minute carry
\* decides: 12 and 1..4 are read as AM (12 becomes 0, 1..4 stay), every other
\* hour as PM (1..11 get 12 added), and the phrase names that 24-hour value.
C25_NightByCarriedHour ==
    MarkedTimeDone(K("$ew"))
        => /\ Len(tokens) = 1
           /\ tokens[1].text =
                 PeriodTimePhrase(NightHour24(CarriedHour, CarriedHour), CarriedMinute)

\* A night time written 4:60 has been rendered as five in the afternoon.
C25_Witness ==
    /\ MarkedTimeDone(K("$ew"))
    /\ RawHour = 4
    /\ ParseInt(TimeFields[2]) = 60
    /\ tokens[1].text = K("punjy dway nyweqo")

\* process has returned from a TIME that stood alone or before one marker
BareTimeDone ==
    /\ pc = "date_done"
    /\ input[1].type = "TIME"
    /\ Len(input) <= 2
    /\ Len(tokens) = 1

\* C26: the phrase of a TIME "h:m" names the minute m mod 60 and the hour
\* h + m div 60 on the 12-hour clock (1..12, with 12 for 0): it is the plain
\* phrase of that hour and minute, or the period phrase of a 24-hour value
\* in 0..23 that is this hour on the 12-hour clock; which of the three minute
\* wordings is used follows the minute after the carry.
C26_MinuteCarry ==
    BareTimeDone =>
        \E hour_24 \in 0..23 :
            /\ hour_24 % 12 = CarriedHour % 12
            /\ SpokenHour(hour_24) \in 1..12
            /\ \/ tokens[1].text = PlainTimePhrase(SpokenHour(hour_24), CarriedMinute)
               \/ tokens[1].text = PeriodTimePhrase(hour_24, CarriedMinute)

\* 23:95 has been rendered as thirty-five minutes past twelve at midnight.
C26_Witness ==
    /\ BareTimeDone
    /\ Len(input) = 1
    /\ RawHour = 23
    /\ ParseInt(TimeFields[2]) = 95
    /\ tokens[1].text = PeriodTimePhrase(0, 35)

\* the label of each hour of the day, as the boundaries of the eight periods
\* give it: midnight, night, dawn, morning, before noon, noon, afternoon,
\* evening, night
PeriodTable ==
    << K("nywe$ew"),
       K("$ew"), K("$ew"), K("$ew"),
       K("berebeyan"), K("berebeyan"),
       K("beyany"), K("beyany"), K("beyany"), K("beyany"),
       K("pu$ nyweqo"), K("pu$ nyweqo"),
       K("nyweqo"), K("nyweqo"),
       K("dway nyweqo"), K("dway nyweqo"), K("dway nyweqo"), K("dway nyweqo"),
       K("'uware"), K("'uware"), K("'uware"),
       K("$ew"), K("$ew"), K("$ew") >>

\* the 24-hour value of a carried hour before a marker: before PM 1..11 get
\* 12 added, before AM 12 becomes 0
MarkedHour24(w, hour) ==
    IF w = A("PM") THEN (IF 1 <= hour /\ hour < 12 THEN hour + 12 ELSE hour) % 24
    ELSE (IF hour = 12 THEN 0 ELSE hour) % 24

\* the words before the label in a period phrase
PeriodPhraseHead(hour_24, minute) ==
    LET hour_text == IntToKurdish(SpokenHour(hour_24))
    IN  IF minute = 0 THEN hour_text \o K("y ")
        ELSE IF minute = 30 THEN hour_text \o K(" w nywy ")
        ELSE hour_text \o K(" w ") \o IntToKurdish(minute) \o K(" xwleky ")

\* C27: a TIME before AM or PM is rendered with the label its 24-hour value
\* has in the table of the periods, which gives one of eight labels to every
\* value 0..23; 12:30 before PM is rendered with the noon label.
C27_PeriodBuckets ==
    /\ Cardinality({ PeriodTable[h] : h \in 1..24 }) = 8
    /\ \A w \in { A("AM"), A("PM") } :
          MarkedTimeDone(w) =>
              /\ Len(tokens) = 1
              /\ MarkedHour24(w, CarriedHour) \in 0..23
              /\ tokens[1].text =
                    PeriodPhraseHead(MarkedHour24(w, CarriedHour), CarriedMinute)
                        \o PeriodTable[MarkedHour24(w, CarriedHour) + 1]
    /\ (MarkedTimeDone(A("PM")) /\ input[1].text = A("12:30"))
          => tokens[1].text = K("dwazde w nywy nyweqo")

\* 12:30 before PM has been rendered with the noon label.
C27_Witness ==
    /\ MarkedTimeDone(A("PM"))
    /\ input[1].text = A("12:30")
    /\ tokens[1].text = K("dwazde w nywy nyweqo")

\* process has returned from a TIME followed by the marker w and the
\* grammatical suffix s
SuffixedTimeDone(w, s) ==
    /\ pc = "date_done"
    /\ input[1].type = "TIME"
    /\ Len(input) = 3
    /\ input[2].text = w
    /\ input[3].text = s

\* the phrase of the TIME before the marker w, without a suffix
MarkedPhrase(w) == PeriodTimePhrase(MarkedHour24(w, CarriedHour), CarriedMinute)

\* the phrase ends in one of the vowels of the fixed set
EndsInVowel(phrase) ==
    phrase # << >> /\ phrase[Len(phrase)] \in Range(K("wyuaeo"))

\* the suffixes that take the linking letter
LinkedSuffixes == { K("e"), K("eke"), K("ekan") }

\* The statement as claimed: the linking letter before every suffix of the
\* table after a vowel.
C28_Original ==
    \A w \in { A("AM"), A("PM") }, s \in SUFFIXES_LIST :
        SuffixedTimeDone(w, s) =>
            /\ Len(tokens) = 1
            /\ tokens[1].text =
                  MarkedPhrase(w) \o (IF EndsInVowel(MarkedPhrase(w)) THEN K("y") ELSE << >>) \o s

\* C28: the suffix absorbed with a marker is appended to the phrase with the
\* linking letter between them when the phrase ends in a vowel of the fixed
\* set and the suffix is one of the three that begin with the vowel U+06D5;
\* every other suffix of the table, and every suffix after a phrase that ends
\* in a consonant, is appended directly.
C28_LinkingLetter ==
    \A w \in { A("AM"), A("PM") }, s \in SUFFIXES_LIST :
        SuffixedTimeDone(w, s) =>
            /\ Len(tokens) = 1
            /\ tokens[1].text =
                  MarkedPhrase(w)
                      \o (IF EndsInVowel(MarkedPhrase(w)) /\ s \in LinkedSuffixes
                          THEN K("y") ELSE << >>)
                      \o s

\* Two o'clock before PM with the definite suffix has been rendered with the
\* linking letter after the vowel of the afternoon label.
C28_Witness ==
    /\ SuffixedTimeDone(A("PM"), K("eke"))
    /\ input[1].text = A("2:00")
    /\ tokens[1].text = K("dwwy dway nyweqoyeke")

\* The texts of the tokens of a list are all non-empty.
NoTombstone(toks) == \A j \in 1..Len(toks) : toks[j].text # << >>

\* The tokens a step of the technical pass adds to new_tokens stand for the
\* token at the loop index: the token itself, or replacement tokens that
\* each hold the spoken prefix word or a piece of the token's text.
StandsFor(added, tok) ==
    /\ Len(added) >= 1
    /\ \/ Len(added) = 1 /\ added[1].orig = tok.orig
       \/ \A j \in 1..Len(added) :
             added[j].orig \in { HashtagWord, AtWord } \/ Has(tok.text, added[j].orig)

\* C29: a pass keeps the order of the tokens. An iteration of the math or the
\* date/time loop rewrites tokens in their place: the list keeps its length
\* and every position its original_text. Their return drops the tokens with
\* an empty text and nothing else, in order, so the returned list has no
\* empty text. An iteration of the technical loop adds, at the end of
\* new_tokens, the token at the loop index or the tokens that replace it.
C29_OrderKept ==
    [][ /\ (pc \in { "math_loop", "date_loop" } /\ pc' = pc) =>
               /\ Len(tokens') = Len(tokens)
               /\ \A j \in 1..Len(tokens) : tokens'[j].orig = tokens[j].orig
        /\ (pc \in { "math_loop", "date_loop" } /\ pc' \in { "math_done", "date_done" }) =>
               /\ IsSubseq(tokens', tokens)
               /\ \A j \in 1..Len(tokens) :
                     tokens[j].text # << >> => \E m \in 1..Len(tokens') : tokens'[m] = tokens[j]
               /\ Len(tokens') = Cardinality({ j \in 1..Len(tokens) : tokens[j].text # << >> })
        /\ pc' \in { "math_done", "date_done" } => NoTombstone(tokens')
        /\ (pc = "tech_loop" /\ pc' = "tech_loop") =>
               /\ Len(new_tokens') > Len(new_tokens)
               /\ SubSeq(new_tokens', 1, Len(new_tokens)) = new_tokens
               /\ StandsFor(SubSeq(new_tokens', Len(new_tokens) + 1, Len(new_tokens')),
                            tokens[i + 1])
               /\ i' = i + 1 ]_vars

\* The math or the date/time pass has returned fewer tokens than it was
\* given, all with a text, and the first token returned is a rewritten one.
C29_Witness ==
    /\ pc \in { "math_done", "date_done" }
    /\ Len(tokens) >= 2
    /\ Len(tokens) < Len(input)
    /\ NoTombstone(tokens)
    /\ tokens[1].text # input[1].text
    /\ tokens[Len(tokens)].orig = input[Len(input)].orig

\* ---------------------------------------------------------------------------
\* The index-driven loops of MathNormalizer.process and
\* DateTimeNormalizer.process. A call of process runs its loop to the end:
\* the next iteration, or the return, is always taken.
\* ---------------------------------------------------------------------------

MaxLoopTok == 3

\* two numbers, the slash, the minus sign, a bracket, a fraction glyph, a
\* superscript, a variable, a DATE, a TIME, a period marker and a suffix
LoopTokens ==
    { Token(tx, tx, "NUMBER", {}, << >>) : tx \in { A("1"), A("2") } }
    \cup { Token(tx, tx, "SYMBOL", {}, << >>) : tx \in { A("/"), A("-"), A("("), << 189 >> } }
    \cup { Token(<< 178 >>, << 178 >>, "SUPERSCRIPT", {}, << >>),
           Token(A("x"), A("x"), "WORD", {}, << >>),
           Token(A("2025/12/03"), A("2025/12/03"), "DATE", {}, A(" ")),
           Token(A("2:00"), A("2:00"), "TIME", {}, A(" ")),
           Token(A("PM"), A("PM"), "WORD", {}, A(" ")),
           Token(K("e"), K("e"), "WORD", {}, << >>) }

LoopsInit ==
    /\ pc \in { "math_loop", "date_start" }
    /\ \E toks \in SeqsUpTo(LoopTokens, MaxLoopTok) :
          /\ config = { "date_time" }
          /\ prio = SomePriorities
          /\ modules = Construct(config, prio)
          /\ calls = 1
          /\ cur = << >>
          /\ ran = << >>
          /\ text = << >>
          /\ tokens = toks
          /\ input = toks
          /\ i = 0
          /\ new_tokens = << >>
          /\ tech_indices = {}
          /\ raised = FALSE

LoopsNext == MathStep \/ MathReturn \/ DateTimeBegin \/ DateTimeStep \/ DateTimeReturn

\* the condition under which an iteration of one of the two loops can be
\* taken: the guard of the while loop (an iteration always moves the index
\* or raises)
LoopStepEnabled == pc \in { "math_loop", "date_loop" } /\ i < Len(tokens)

\* Weak fairness of every step of the two calls; for the iterations it is
\* written out with LoopStepEnabled as the enabling condition.
LoopsFairness ==
    /\ WF_vars(MathReturn \/ DateTimeBegin \/ DateTimeReturn)
    /\ ([]<>(~LoopStepEnabled) \/ []<><<MathStep \/ DateTimeStep>>_vars)

LoopsSpec == LoopsInit /\ [][LoopsNext]_vars /\ LoopsFairness

\* the loop of one of the two passes is running
InLoop == pc \in { "math_loop", "date_loop" }

\* the call has ended: it returned, or an iteration raised
CallEnded == pc \in { "math_done", "date_done", "math_raised" }

\* C30: both loops terminate. Every iteration that completes moves the index
\* forward by 1 or by 2 and not past the end of the list, and leaves the list
\* at its length; the index moves by 2 only in the math loop, over a slash
\* it has blanked together with the token after it (the denominator); and
\* every call of process ends.
C30_Terminates ==
    /\ [][ (InLoop /\ pc' = pc) =>
               /\ i' \in { i + 1, i + 2 }
               /\ i' <= Len(tokens)
               /\ Len(tokens') = Len(tokens)
               /\ i' = i + 2 =>
                     /\ pc = "math_loop"
                     /\ tokens[i + 1].text = A("/")
                     /\ tokens[i + 2].text # << >>
                     /\ tokens'[i + 1].text = << >>
                     /\ tokens'[i + 2].text = << >> ]_vars
    /\ <>CallEnded

\* The math pass has returned after a fraction merge: the index passed the
\* end of a list whose slash and denominator were dropped.
C30_Witness ==
    /\ pc = "math_done"
    /\ Len(input) = 3
    /\ Len(tokens) = 1
    /\ i >= Len(input)
    /\ \E j \in 1..Len(input) : input[j].text = A("/")
    /\ \A j \in 1..Len(tokens) : tokens[j].text # A("/")

\* ---------------------------------------------------------------------------
\* One call of the technical, the math or the date/time pass: the lists of
\* the technical pass, and the lists of the two index-driven loops.
\* ---------------------------------------------------------------------------

OrderInit == TechInit \/ LoopsInit

OrderNext == TechNext \/ LoopsNext

OrderSpec == OrderInit /\ [][OrderNext]_vars


(***************************************************************************)
(* Pipeline.normalize  (core/pipeline.py:82-115)                           *)
(***************************************************************************)
\* the texts handed to normalize: a sum, and a text in which a dash follows
\* the last digit
Texts == { <<53, 32, 43, 32, 51>> (* 5 + 3 *), <<49, 45, 50, 45>> (* 1-2- *) }

ModulesAfterPop(ms) == IF ms = << >> THEN ms ELSE Tail(ms)

\* self.modules as process() of one module leaves it: the loop only reads it.
ModulesAfterProcess(ms) == ms

\* process(tokens) of a module whose file is not in the source tree: the
\* token list is handed on as it came
OtherProcess(m, toks) == toks

\* module.process(tokens) for the module named m of a pipeline configured
\* with cfg: the list it returns, or raise when the call raised
Process(m, cfg, toks) ==
    IF m = "DateTimeNormalizer"
    THEN [out |-> DateTimeProcess(cfg, toks), raise |-> FALSE]
    ELSE IF m = "TechnicalNormalizer" THEN TechProcess(toks)
    ELSE IF m = "MathNormalizer" THEN MathProcess(toks)
    ELSE IF m = "SpacingNormalizer"
    THEN [out |-> SpacingProcess(toks), raise |-> FALSE]
    ELSE [out |-> OtherProcess(m, toks), raise |-> FALSE]

RECURSIVE RunModules(_, _, _)
\* the loop of lines 96-97 over the module list ms
RunModules(ms, cfg, toks) ==
    IF ms = << >> THEN [out |-> toks, raise |-> FALSE]
    ELSE LET Rest(r) == IF r.raise THEN r ELSE RunModules(Tail(ms), cfg, r.out)
         IN  Rest(Process(Head(ms), cfg, toks))

\* lines 99-115: detokenize and the final cleanup
FinalText(toks) == Cleanup(Detokenize(toks))

\* normalize is called with a text of T: line 93 tokenizes it
NormalizeBeginOn(T) ==
    /\ pc \in { "idle", "returned", "raised" }
    /\ calls < MaxCalls
    /\ \E t \in T :
          /\ cur' = t
          /\ tokens' = Tokenize(t)
          /\ input' = tokens'
    /\ calls' = calls + 1
    /\ ran' = << >>
    /\ text' = << >>
    /\ raised' = FALSE
    /\ pc' = "modules"
    /\ UNCHANGED << config, prio, modules, i, new_tokens, tech_indices >>

NormalizeBegin == NormalizeBeginOn(Texts)

\* tokens = module.process(tokens), for the next module of self.modules; an
\* exception of process leaves normalize
NormalizeModule ==
    /\ pc = "modules"
    /\ Len(ran) < Len(modules)
    /\ ran' = Append(ran, modules[Len(ran) + 1])
    /\ modules' = ModulesAfterProcess(modules)
    /\ \E r \in { Process(modules[Len(ran) + 1], config, tokens) } :
           IF r.raise
           THEN /\ raised' = TRUE
                /\ pc' = "raised"
                /\ UNCHANGED tokens
           ELSE /\ tokens' = r.out
                /\ UNCHANGED << pc, raised >>
    /\ UNCHANGED << config, prio, calls, cur, text, input, i, new_tokens,
                    tech_indices >>

\* the loop is over: detokenize, clean up and return the text
NormalizeReturn ==
    /\ pc = "modules"
    /\ Len(ran) >= Len(modules)
    /\ text' = FinalText(tokens)
    /\ pc' = "returned"
    /\ UNCHANGED << config, prio, modules, calls, cur, ran, tokens, input,
                    i, new_tokens, tech_indices, raised >>

PipelineInit ==
    /\ config \in SUBSET Flags
    /\ prio \in UnknownPriorities
    /\ modules = Construct(config, prio)
    /\ calls = 0
    /\ cur = << >>
    /\ ran = << >>
    /\ pc = "idle"
    /\ text = << >>
    /\ tokens = << >>
    /\ input = << >>
    /\ i = 0
    /\ new_tokens = << >>
    /\ tech_indices = {}
    /\ raised = FALSE

PipelineNext == NormalizeBegin \/ NormalizeModule \/ NormalizeReturn

PipelineSpec == PipelineInit /\ [][PipelineNext]_vars

(***************************************************************************)
(* Claims about the pipeline orchestrator.                                 *)
(***************************************************************************)
Before(s, a, b) == IndexOf(s, a) # 0 /\ IndexOf(s, b) # 0 => IndexOf(s, a) < IndexOf(s, b)

\* C1: normalize applies every module of the module list exactly once, in
\* non-increasing priority order, modules of equal priority in the order the
\* constructor registered them, each module receiving the token list the
\* module before it returned; DateTimeNormalizer runs before
\* TechnicalNormalizer, that before MathNormalizer, that before
\* SpacingNormalizer, whenever they are enabled.
C1_PriorityOrder ==
    /\ \A a, b \in 1..Len(ran) :
          a < b =>
            /\ ran[a] # ran[b]
            /\ PriorityOf(prio, ran[a]) >= PriorityOf(prio, ran[b])
            /\ PriorityOf(prio, ran[a]) = PriorityOf(prio, ran[b])
                  => RegIndex(ran[a]) < RegIndex(ran[b])
    /\ LET registered == Registered(config, 1)
       IN  /\ Range(ran) \subseteq Range(registered)
           /\ pc = "returned" =>
                 /\ Range(ran) = Range(registered)
                 /\ Len(ran) = Len(registered)
    /\ pc = "returned" =>
          /\ Before(ran, "DateTimeNormalizer", "TechnicalNormalizer")
          /\ Before(ran, "TechnicalNormalizer", "MathNormalizer")
          /\ Before(ran, "DateTimeNormalizer", "MathNormalizer")
          /\ Before(ran, "MathNormalizer", "SpacingNormalizer")
    /\ pc = "returned" =>
          LET fed == RunModules(ran, config, input)
          IN  ~fed.raise /\ tokens = fed.out

\* A finished call with the three modules enabled and two modules of equal
\* priority among those that ran, in which the math pass changed a token.
C1_Witness ==
    /\ pc = "returned"
    /\ { "date_time", "technical", "math", "currency" } \subseteq config
    /\ IndexOf(ran, "DateTimeNormalizer") < IndexOf(ran, "TechnicalNormalizer")
    /\ IndexOf(ran, "MathNormalizer") + 1 = IndexOf(ran, "CurrencyNormalizer")
    /\ PriorityOf(prio, "MathNormalizer") = PriorityOf(prio, "CurrencyNormalizer")
    /\ Len(tokens) = Len(input)
    /\ \E j \in 1..Len(tokens) : tokens[j].text # input[j].text

C6_Stateless ==
    /\ [][ config' = config /\ modules' = modules ]_vars
    /\ [](pc = "returned" =>
              LET fresh == Construct(config, prio)
                  r == RunModules(fresh, config, Tokenize(cur))
              IN  ran = fresh /\ ~r.raise /\ text = FinalText(r.out))

\* A second call on the same pipeline has returned a rewritten text.
C6_Witness ==
    /\ calls = 2
    /\ pc = "returned"
    /\ cur = A("5 + 3")
    /\ text # cur
    /\ Len(ran) > 3

(***************************************************************************)
(* Pipeline.normalize with every optional module disabled, on texts of     *)
(* whitespace and a letter: the final cleanup (core/pipeline.py:102-115).  *)
(***************************************************************************)
\* " ", "\t", "\n", "\r", "\x0b" and "a"
Alphabet == { 32, 9, 10, 13, 11, 97 }

StringsUpTo(n) == SeqsUpTo(Alphabet, n)

CleanupBegin == NormalizeBeginOn(StringsUpTo(MaxLen))

\* A pipeline with one call of normalize ahead.
CleanupInit ==
    /\ config = {}
    /\ prio = SomePriorities
    /\ modules = Construct(config, prio)
    /\ calls = MaxCalls - 1
    /\ cur = << >>
    /\ ran = << >>
    /\ pc = "idle"
    /\ text = << >>
    /\ tokens = << >>
    /\ input = << >>
    /\ i = 0
    /\ new_tokens = << >>
    /\ tech_indices = {}
    /\ raised = FALSE

CleanupNext == CleanupBegin \/ NormalizeModule \/ NormalizeReturn

CleanupSpec == CleanupInit /\ [][CleanupNext]_vars

\* "\r" and "\n"
LineBreaks == { 13, 10 }

\* C4: the string normalize returns never holds two consecutive line-break
\* characters, also when the line breaks of the reassembled text were
\* separated by spaces or tabs only.
C4_NoDoubleLineBreak ==
    pc = "returned" =>
        \A k \in 1..(Len(text) - 1) :
            ~(text[k] \in LineBreaks /\ text[k + 1] \in LineBreaks)

\* C5: the string normalize returns holds no tab, no two adjacent spaces, no
\* space next to a line break and no leading or trailing whitespace.
C5_CanonicalWhitespace ==
    pc = "returned" =>
        /\ ~Has(text, << 9 >>)
        /\ ~Has(text, << 32, 32 >>)
        /\ \A b \in LineBreaks : ~Has(text, << 32, b >>) /\ ~Has(text, << b, 32 >>)
        /\ text # << >> => /\ Head(text) \notin PyWhitespace
                           /\ text[Len(text)] \notin PyWhitespace

\* A returned text whose source had a tab, a space before a line break and
\* trailing whitespace, and that still holds a line break.
C5_Witness ==
    /\ pc = "returned"
    /\ Has(cur, << 9 >>)
    /\ Has(cur, << 32, 10 >>)
    /\ cur # << >> /\ cur[Len(cur)] \in PyWhitespace
    /\ Has(text, << 10 >>)
====
